---- MODULE Spec2Model ----
(***************************************************************************)
(* The job state store (src/databases/redis.py), the request handler that  *)
(* creates and enqueues a job (src/api/evaluate.py), the Celery task that  *)
(* runs it (src/task.py) and the pipeline the task drives                  *)
(* (src/services/evaluation_pipeline_service.py, gemini_service.py,        *)
(* pdf_service.py).                                                        *)
(*                                                                         *)
(* A Python dict is a TLA+ function whose DOMAIN is the set of its keys.   *)
(* None and the empty dict are both the empty function (the code only      *)
(* tests them with "if result:"), None and "" are both "" for the error    *)
(* argument (the code only tests it with "if error:").  A timestamp is the *)
(* value of the clock `now` at the call.                                   *)
(***************************************************************************)
EXTENDS Integers, Sequences, FiniteSets, TLC

VARIABLES
    redis,      \* the Redis keyspace: job id -> job_data, DOMAIN = existing keys
    last,       \* the last job-store call: its arguments and what it raised
    retrying_updates, \* per job id, how many RETRYING updates were applied
    calls,      \* how many job-store calls were made
    trail,      \* per job id, the statuses its record went through, in order
    now,        \* datetime.utcnow(), in ticks
    queue,      \* broker: the task messages waiting for a worker
    pc,         \* the worker's position in run_evaluation_pipeline
    request,    \* the message being executed (self.request)
    timed_out,  \* the soft time limit has struck in this execution
    attempt,    \* tenacity's attempt number inside generate_with_retry
    to_search,  \* optional documents still to search in the current loop
    cv_formatted,       \* _evaluate_cv's result
    project_formatted,  \* _evaluate_project's result
    exc,        \* the exception travelling to the task's handlers
    lost,       \* how many times a worker was lost before acknowledging
    awaited,    \* the last step evaluate awaited in this execution: how it ended
    resolved,   \* the documents whose evaluation has returned in this execution
    generated,  \* model.generate_content calls counted: in this execution, for
                \* the job; <<>> while they are not counted
    json_str,   \* validate_and_repair_json: the text it is called with
    expected_model, \* validate_and_repair_json: the model it is called with
    repair_pc,  \* validate_and_repair_json: the stage to run, or how it ended
    attempted,  \* the stages that have run, in order
    repair_data, \* the data the last stage handed to the model's constructor
    validated,  \* the record validate_and_repair_json returned
    raised,     \* the exception that left validate_and_repair_json
    response_text, \* response.text: what the model transport answered
    formatted,  \* cv_formatted and project_formatted, once they are made
    prompt_args, \* what _generate_summary hands to get_final_synthesis_prompt
    scoring,    \* a CVScoring instance: its four scores
    rates,      \* its weighted_score and match_rate, once they are read
    retrieval,  \* the call of get_evaluation_context in progress
    reference_documents, \* the rows of the reference_documents table
    lookup,     \* the call of find_default_and_mandatory_by_role_and_categories
    extraction, \* the call of PDFParser.extract_text in progress
    updaters    \* the calls of update_job_status in progress, by caller

vars == <<redis, last, retrying_updates, calls, trail, now, queue, pc, request, timed_out,
          attempt, to_search, cv_formatted, project_formatted, exc, lost,
          awaited, resolved, generated,
          json_str, expected_model, repair_pc, attempted, repair_data, validated, raised,
          response_text, formatted, prompt_args,
          scoring, rates, retrieval, reference_documents, lookup,
          extraction, updaters>>

store_vars == <<redis, last, retrying_updates, calls, trail>>
task_vars == <<queue, pc, request, timed_out, attempt, to_search,
               cv_formatted, project_formatted, exc, lost, awaited, resolved,
               generated>>
repair_vars == <<json_str, expected_model, repair_pc, attempted, repair_data, validated, raised>>
format_vars == <<response_text, formatted, prompt_args>>
scoring_vars == <<scoring, rates>>
context_vars == <<retrieval, reference_documents, lookup>>
pdf_vars == <<extraction>>
race_vars == <<updaters>>

----------------------------------------------------------------------------
\* Bounds of the model

MaxClock == 1

MaxStoreCalls == 4

MaxContext == 1

MaxLost == 1

----------------------------------------------------------------------------
\* src/models/job.py

QUEUED == "queued"

PROCESSING == "processing"

COMPLETED == "completed"

FAILED == "failed"

RETRYING == "retrying"

JobStatus == {QUEUED, PROCESSING, COMPLETED, FAILED, RETRYING}

----------------------------------------------------------------------------
\* Python dict helpers

EmptyDict == [k \in {} |-> TRUE]

\* d[k] = v
Put(d, k, v) == [x \in DOMAIN d \cup {k} |-> IF x = k THEN v ELSE d[x]]

\* d.update(other)
DictUpdate(d, other) ==
    [x \in DOMAIN d \cup DOMAIN other |-> IF x \in DOMAIN other THEN other[x] ELSE d[x]]

\* d.get(k, default)
DictGet(d, k, default) == IF k \in DOMAIN d THEN d[k] ELSE default

\* Python truthiness of a dict or None, and of a str or None
TruthyDict(d) == DOMAIN d # {}

TruthyStr(s) == s # ""

----------------------------------------------------------------------------
\* The job store, src/databases/redis.py

JobIds == {"j1", "j2"}

TheJob == "j1"

JobTitle == "Backend Engineer"

NotFound(job_id) == "Job " \o job_id \o " not found"

\* create_job_record: the job_data dict it stores
NewJobData(job_id, cv_context, project_context, status, created_at) ==
    [id |-> job_id,
     cv_id |-> "cv1",
     cv_context |-> cv_context,
     report_id |-> "report1",
     project_context |-> project_context,
     job_title |-> JobTitle,
     status |-> status,
     created_at |-> created_at,
     updated_at |-> created_at,
     retry_count |-> 0]

\* update_job_status without "job_data.update(result)"
UpdatedJobData_NoMerge(job_data, status, result, error, t) ==
    LET d1 == Put(Put(job_data, "status", status), "updated_at", t)
        d3 == IF TruthyStr(error) THEN Put(d1, "error", error) ELSE d1
        d4 == IF status = COMPLETED THEN Put(d3, "completed_at", t) ELSE d3
    IN  IF status = RETRYING
        THEN Put(d4, "retry_count", DictGet(d4, "retry_count", 0) + 1)
        ELSE d4

\* update_job_status counting a retry on FAILED as well as on RETRYING
UpdatedJobData_CountFailed(job_data, status, result, error, t) ==
    LET d1 == Put(Put(job_data, "status", status), "updated_at", t)
        d2 == IF TruthyDict(result) THEN DictUpdate(d1, result) ELSE d1
        d3 == IF TruthyStr(error) THEN Put(d2, "error", error) ELSE d2
        d4 == IF status = COMPLETED THEN Put(d3, "completed_at", t) ELSE d3
    IN  IF status \in {RETRYING, FAILED}
        THEN Put(d4, "retry_count", DictGet(d4, "retry_count", 0) + 1)
        ELSE d4

\* update_job_status clearing the error of a job that completes
UpdatedJobData_DropError(job_data, status, result, error, t) ==
    LET d0 == IF status = COMPLETED
              THEN [k \in DOMAIN job_data \ {"error"} |-> job_data[k]]
              ELSE job_data
        d1 == Put(Put(d0, "status", status), "updated_at", t)
        d2 == IF TruthyDict(result) THEN DictUpdate(d1, result) ELSE d1
        d3 == IF TruthyStr(error) THEN Put(d2, "error", error) ELSE d2
        d4 == IF status = COMPLETED THEN Put(d3, "completed_at", t) ELSE d3
    IN  IF status = RETRYING
        THEN Put(d4, "retry_count", DictGet(d4, "retry_count", 0) + 1)
        ELSE d4

\* update_job_status, from json.loads to the dict handed to setex
UpdatedJobData(job_data, status, result, error, t) ==
    LET d1 == Put(Put(job_data, "status", status), "updated_at", t)
        d2 == IF TruthyDict(result) THEN DictUpdate(d1, result) ELSE d1
        d3 == IF TruthyStr(error) THEN Put(d2, "error", error) ELSE d2
        d4 == IF status = COMPLETED THEN Put(d3, "completed_at", t) ELSE d3
        d5 == IF status = RETRYING
              THEN Put(d4, "retry_count", DictGet(d4, "retry_count", 0) + 1)
              ELSE d4
    IN  d5

\* client.setex(key, ttl, value)
Setex(db, key, value) == [k \in DOMAIN db \cup {key} |-> IF k = key THEN value ELSE db[k]]

\* update_job_status raises ValueError when client.get finds nothing
UpdateRaises(db, job_id) == job_id \notin DOMAIN db

\* update_job_status writing a record for an id it did not find
update_job_status_Upsert(db, job_id, status, result, error, t) ==
    Setex(db, job_id,
          UpdatedJobData(DictGet(db, job_id, EmptyDict), status, result, error, t))

\* update_job_status: the keyspace after the call
update_job_status(db, job_id, status, result, error, t) ==
    IF UpdateRaises(db, job_id)
    THEN db
    ELSE Setex(db, job_id, UpdatedJobData(db[job_id], status, result, error, t))

\* what the call leaves in `last`
UpdateCall(db, job_id, status, result, error) ==
    [op |-> "update", id |-> job_id, status |-> status, result |-> result,
     error |-> error,
     raised |-> IF UpdateRaises(db, job_id) THEN NotFound(job_id) ELSE ""]

CountRetrying(counts, db, job_id, status) ==
    IF status = RETRYING /\ ~UpdateRaises(db, job_id)
    THEN [counts EXCEPT ![job_id] = @ + 1]
    ELSE counts

\* the stored status of job_id changed: the trail grows by the new status
Trailed(tr, db, job_id) ==
    IF job_id \in DOMAIN db /\ (tr[job_id] = <<>> \/ tr[job_id][Len(tr[job_id])] # db[job_id].status)
    THEN [tr EXCEPT ![job_id] = Append(@, db[job_id].status)]
    ELSE tr

NoCall == [op |-> "none", id |-> "", status |-> "", result |-> EmptyDict,
           error |-> "", raised |-> ""]

\* one call of update_job_status on the store variables
DoUpdate(job_id, status, result, error) ==
    /\ redis' = update_job_status(redis, job_id, status, result, error, now)
    /\ last' = UpdateCall(redis, job_id, status, result, error)
    /\ retrying_updates' = CountRetrying(retrying_updates, redis, job_id, status)
    /\ calls' = calls + 1
    /\ trail' = Trailed(trail, redis', job_id)

\* one call of create_job_record on the store variables
DoCreate(job_id, cv_context, project_context, status) ==
    /\ redis' = Setex(redis, job_id,
                      NewJobData(job_id, cv_context, project_context, status, now))
    /\ last' = [op |-> "create", id |-> job_id, status |-> status,
                result |-> EmptyDict, error |-> "", raised |-> ""]
    /\ retrying_updates' = [retrying_updates EXCEPT ![job_id] = 0]
    /\ calls' = calls + 1
    /\ trail' = [trail EXCEPT ![job_id] = <<status>>]

----------------------------------------------------------------------------
\* EvaluationPipeline.evaluate's return value (final_result)

Formatted == {"none", "dict"}

FinalResult(cv, project, summary) ==
    [job_title |-> JobTitle,
     overall_summary |-> summary,
     formatted_result |-> [cv |-> cv, project |-> project]]

Summary == "summary"

\* the result arguments the store is called with: None, or a final_result
ResultArgs == {EmptyDict, FinalResult("dict", "none", Summary)}

ErrorArgs == {"", "e1"}

\* request.cv_context, request.project_context: lists of document ids
ContextArgs == {[i \in 1..n |-> i] : n \in 0..MaxContext}

----------------------------------------------------------------------------
\* The store driven directly: any sequence of create and update calls

NoRequest == [retries |-> 0, countdown |-> 0, cv_context |-> <<>>,
              project_context |-> <<>>]

StoreInit ==
    /\ redis = EmptyDict
    /\ last = NoCall
    /\ retrying_updates = [j \in JobIds |-> 0]
    /\ calls = 0
    /\ trail = [j \in JobIds |-> <<>>]
    /\ now = 0

\* no step was awaited yet
NoStep == [at |-> "", outcome |-> "", attempt |-> 0]

TaskIdle ==
    /\ queue = <<>>
    /\ pc = "idle"
    /\ request = NoRequest
    /\ timed_out = FALSE
    /\ attempt = 0
    /\ to_search = 0
    /\ cv_formatted = "none"
    /\ project_formatted = "none"
    /\ exc = ""
    /\ lost = 0
    /\ awaited = NoStep
    /\ resolved = {}
    /\ generated = <<>>

\* validate_and_repair_json is not called
RepairIdle ==
    /\ json_str = <<>>
    /\ expected_model = ""
    /\ repair_pc = "idle"
    /\ attempted = <<>>
    /\ repair_data = [t |-> "None"]
    /\ validated = [t |-> "None"]
    /\ raised = ""

\* no answer of the model is being parsed
FormatIdle ==
    /\ response_text = <<>>
    /\ formatted = <<>>
    /\ prompt_args = <<>>

\* no scores are held
ScoringIdle ==
    /\ scoring = <<>>
    /\ rates = <<>>

\* no context is looked up
ContextIdle ==
    /\ retrieval = <<>>
    /\ reference_documents = <<>>
    /\ lookup = <<>>

\* no text is extracted
PdfIdle == extraction = <<>>

\* no update of the store is in progress
RaceIdle == updaters = <<>>

Init ==
    /\ StoreInit /\ TaskIdle /\ RepairIdle /\ FormatIdle /\ ScoringIdle /\ ContextIdle
    /\ PdfIdle /\ RaceIdle

Tick ==
    /\ now < MaxClock
    /\ now' = now + 1
    /\ UNCHANGED <<store_vars, task_vars>>
    /\ UNCHANGED <<repair_vars, format_vars, scoring_vars, context_vars, pdf_vars, race_vars>>

StoreCreate ==
    /\ calls < MaxStoreCalls
    /\ \E job_id \in JobIds :
          /\ job_id \notin DOMAIN redis
          /\ DoCreate(job_id, <<>>, <<>>, QUEUED)
    /\ UNCHANGED <<now, task_vars>>
    /\ UNCHANGED <<repair_vars, format_vars, scoring_vars, context_vars, pdf_vars, race_vars>>

StoreUpdate ==
    /\ calls < MaxStoreCalls
    /\ \E job_id \in JobIds, status \in JobStatus,
          result \in ResultArgs, error \in ErrorArgs :
          DoUpdate(job_id, status, result, error)
    /\ UNCHANGED <<now, task_vars>>
    /\ UNCHANGED <<repair_vars, format_vars, scoring_vars, context_vars, pdf_vars, race_vars>>

StoreNext == Tick \/ StoreCreate \/ StoreUpdate

SpecStore == Init /\ [][StoreNext]_vars

----------------------------------------------------------------------------
\* evaluate_candidate, src/api/evaluate.py

\* the handler enqueueing the task without looking at the documents and
\* without creating the record
evaluate_candidate_EnqueueOnly ==
    /\ pc = "idle"
    /\ queue = <<>>
    /\ TheJob \notin DOMAIN redis
    /\ last.op = "none"
    /\ \E cv_context \in ContextArgs, project_context \in ContextArgs :
          queue' = Append(queue, [retries |-> 0, countdown |-> 0,
                                  cv_context |-> cv_context,
                                  project_context |-> project_context])
    /\ last' = [NoCall EXCEPT !.op = "http404"]
    /\ UNCHANGED <<redis, retrying_updates, calls, trail>>
    /\ UNCHANGED <<now, pc, request, timed_out, attempt, to_search,
                   cv_formatted, project_formatted, exc, lost>>
    /\ UNCHANGED <<awaited, resolved, generated, repair_vars, format_vars, scoring_vars, context_vars, pdf_vars, race_vars>>

\* POST /evaluate: both documents are checked, then the record is created
\* QUEUED, then the task is enqueued (run_evaluation_pipeline.delay).
\* job_id = str(uuid.uuid4()): an id is given to one request only
evaluate_candidate ==
    /\ pc = "idle"
    /\ queue = <<>>
    /\ TheJob \notin DOMAIN redis
    /\ trail[TheJob] = <<>>
    /\ \E cv_exists \in BOOLEAN, report_exist \in BOOLEAN,
          cv_context \in ContextArgs, project_context \in ContextArgs :
          IF cv_exists /\ report_exist
          THEN /\ DoCreate(TheJob, cv_context, project_context, QUEUED)
               /\ queue' = Append(queue, [retries |-> 0, countdown |-> 0,
                                          cv_context |-> cv_context,
                                          project_context |-> project_context])
          ELSE /\ last' = [NoCall EXCEPT !.op = "http404"]
               /\ UNCHANGED <<redis, retrying_updates, calls, trail, queue>>
    /\ UNCHANGED <<now, pc, request, timed_out, attempt, to_search,
                   cv_formatted, project_formatted, exc, lost>>
    /\ UNCHANGED <<awaited, resolved, generated, repair_vars, format_vars, scoring_vars, context_vars, pdf_vars, race_vars>>

----------------------------------------------------------------------------
\* run_evaluation_pipeline, src/task.py

max_retries == 3

SoftTimeLimitExceeded == "SoftTimeLimitExceeded()"

TimedOutError == "Evaluation timed out after 4 minutes"

\* f"Retry {self.request.retries + 1}: {str(e)}"
RetryError(retries, e) == "Retry " \o ToString(retries + 1) \o ": " \o e

\* f"Failed after {self.max_retries} retries: {str(e)}"
FailedError(e) == "Failed after " \o ToString(max_retries) \o " retries: " \o e

\* the retry test off by one: retries <= max_retries
MayRetry_OneMore(retries) == retries <= max_retries

\* if self.request.retries < self.max_retries
MayRetry(retries) == retries < max_retries

\* a delay that grows by one second with every retry
retry_delay_Linear(retries) == retries + 1

\* retry_delay = 2 ** self.request.retries
retry_delay(retries) == 2 ^ retries

\* the failed step is taken again instead of the exception leaving
Raise_Again(e) ==
    /\ exc' = e
    /\ pc' = pc

\* an exception leaves the try block of _run_task
Raise(e) ==
    /\ exc' = e
    /\ pc' = "raised"

\* a new execution of the task has made no call yet
NewExecution(n) == IF DOMAIN n = {} THEN n ELSE [n EXCEPT !.execution = 0]

\* the soft time limit strikes at most once in one execution
MayStrike == ~timed_out

\* the worker takes the message at the head of the queue and calls the task
Deliver ==
    /\ pc = "idle"
    /\ queue # <<>>
    /\ request' = Head(queue)
    /\ queue' = Tail(queue)
    /\ pc' = "start"
    /\ timed_out' = FALSE
    /\ attempt' = 0
    /\ to_search' = 0
    /\ cv_formatted' = "none"
    /\ project_formatted' = "none"
    /\ exc' = ""
    /\ awaited' = NoStep
    /\ resolved' = {}
    /\ generated' = NewExecution(generated)
    /\ UNCHANGED <<store_vars, now, lost>>
    /\ UNCHANGED <<repair_vars, format_vars, scoring_vars, context_vars, pdf_vars, race_vars>>

\* await update_job_status(job_id, JobStatus.PROCESSING)
SetProcessing ==
    /\ pc = "start"
    /\ DoUpdate(TheJob, PROCESSING, EmptyDict, "")
    /\ IF UpdateRaises(redis, TheJob)
       THEN Raise(NotFound(TheJob))
       ELSE pc' = "role" /\ exc' = exc
    /\ UNCHANGED <<now, queue, request, timed_out, attempt, to_search,
                   cv_formatted, project_formatted, lost>>
    /\ UNCHANGED <<awaited, resolved, generated, repair_vars, format_vars, scoring_vars, context_vars, pdf_vars, race_vars>>

\* await update_job_status(job_id, JobStatus.COMPLETED, result=result); return
SetCompleted ==
    /\ pc = "complete"
    /\ DoUpdate(TheJob, COMPLETED,
                FinalResult(cv_formatted, project_formatted, Summary), "")
    /\ IF UpdateRaises(redis, TheJob)
       THEN Raise(NotFound(TheJob))
       ELSE pc' = "done" /\ exc' = exc
    /\ UNCHANGED <<now, queue, request, timed_out, attempt, to_search,
                   cv_formatted, project_formatted, lost>>
    /\ UNCHANGED <<awaited, resolved, generated, repair_vars, format_vars, scoring_vars, context_vars, pdf_vars, race_vars>>

\* except SoftTimeLimitExceeded: update FAILED, raise
HandleSoftTimeLimit ==
    /\ pc = "raised"
    /\ exc = SoftTimeLimitExceeded
    /\ DoUpdate(TheJob, FAILED, EmptyDict, TimedOutError)
    /\ exc' = IF UpdateRaises(redis, TheJob) THEN NotFound(TheJob) ELSE exc
    /\ pc' = "done"
    /\ UNCHANGED <<now, queue, request, timed_out, attempt, to_search,
                   cv_formatted, project_formatted, lost>>
    /\ UNCHANGED <<awaited, resolved, generated, repair_vars, format_vars, scoring_vars, context_vars, pdf_vars, race_vars>>

\* the handler putting a job it retries back to QUEUED
HandlerStatus_Requeue(retries) == IF MayRetry(retries) THEN QUEUED ELSE FAILED

\* the handler giving up one execution early
HandlerStatus_Early(retries) == IF retries < max_retries - 1 THEN RETRYING ELSE FAILED

\* the status and the error the except Exception handler writes
HandlerStatus(retries) == IF MayRetry(retries) THEN RETRYING ELSE FAILED

\* the handler writing the retry message when it gives up too
HandlerError_Retry(retries, e) == RetryError(retries, e)

HandlerError(retries, e) ==
    IF MayRetry(retries) THEN RetryError(retries, e) ELSE FailedError(e)

\* the handler scheduling the retry although its own update has raised
HandleException_RetryAnyway ==
    /\ pc = "raised"
    /\ exc # SoftTimeLimitExceeded
    /\ DoUpdate(TheJob, HandlerStatus(request.retries), EmptyDict,
                HandlerError(request.retries, exc))
    /\ exc' = exc
    /\ pc' = IF MayRetry(request.retries) THEN "retry" ELSE "done"
    /\ UNCHANGED <<now, queue, request, timed_out, attempt, to_search,
                   cv_formatted, project_formatted, lost>>
    /\ UNCHANGED <<awaited, resolved, generated, repair_vars, format_vars, scoring_vars, context_vars, pdf_vars, race_vars>>

\* except Exception as e: update RETRYING (then self.retry) or FAILED (then raise)
HandleException ==
    /\ pc = "raised"
    /\ exc # SoftTimeLimitExceeded
    /\ DoUpdate(TheJob, HandlerStatus(request.retries), EmptyDict,
                HandlerError(request.retries, exc))
    /\ IF UpdateRaises(redis, TheJob)
       THEN exc' = NotFound(TheJob) /\ pc' = "done"
       ELSE /\ exc' = exc
            /\ pc' = IF MayRetry(request.retries) THEN "retry" ELSE "done"
    /\ UNCHANGED <<now, queue, request, timed_out, attempt, to_search,
                   cv_formatted, project_formatted, lost>>
    /\ UNCHANGED <<awaited, resolved, generated, repair_vars, format_vars, scoring_vars, context_vars, pdf_vars, race_vars>>

\* self.retry raising without sending the task again
Retry_Forgets ==
    /\ pc = "retry"
    /\ pc' = "done"
    /\ UNCHANGED <<store_vars, now, queue, request, timed_out, attempt, to_search,
                   cv_formatted, project_formatted, exc, lost>>
    /\ UNCHANGED <<awaited, resolved, generated, repair_vars, format_vars, scoring_vars, context_vars, pdf_vars, race_vars>>

\* raise self.retry(exc=e, countdown=retry_delay): the task is sent again
\* with retries + 1, and Retry leaves the task
Retry ==
    /\ pc = "retry"
    /\ queue' = Append(queue, [request EXCEPT !.retries = @ + 1,
                                              !.countdown = retry_delay(request.retries)])
    /\ pc' = "done"
    /\ UNCHANGED <<store_vars, now, request, timed_out, attempt, to_search,
                   cv_formatted, project_formatted, exc, lost>>
    /\ UNCHANGED <<awaited, resolved, generated, repair_vars, format_vars, scoring_vars, context_vars, pdf_vars, race_vars>>

\* the task has returned or raised: with task_acks_late the message is
\* acknowledged only now
Ack ==
    /\ pc = "done"
    /\ pc' = "idle"
    /\ UNCHANGED <<store_vars, now, queue, request, timed_out, attempt,
                   to_search, cv_formatted, project_formatted, exc, lost>>
    /\ UNCHANGED <<awaited, resolved, generated, repair_vars, format_vars, scoring_vars, context_vars, pdf_vars, race_vars>>

----------------------------------------------------------------------------
\* EvaluationPipeline.evaluate and what it awaits
\* (evaluation_pipeline_service.py, pdf_service.py, gemini_service.py)

Docs == {"cv", "project"}

At(step, doc) == step \o "_" \o doc

\* what the soft time limit adds to the outcomes of a step in progress
Strike == IF MayStrike THEN {"timeout"} ELSE {}

keep_eval == <<attempt, to_search, cv_formatted, project_formatted>>

\* role_repository.find_role_by_name, and "if not role: raise ValueError"
FindRole ==
    /\ pc = "role"
    /\ \E outcome \in {"role", "none"} \cup Strike :
          /\ timed_out' = (timed_out \/ outcome = "timeout")
          /\ awaited' = [at |-> pc, outcome |-> outcome, attempt |-> attempt]
          /\ CASE outcome = "role" -> pc' = At("plumber", "cv") /\ exc' = exc
               [] outcome = "none" -> Raise("Role not found: " \o JobTitle)
               [] outcome = "timeout" -> Raise(SoftTimeLimitExceeded)
    /\ UNCHANGED <<store_vars, now, queue, request, keep_eval, lost>>
    /\ UNCHANGED <<resolved, generated, repair_vars, format_vars, scoring_vars, context_vars, pdf_vars, race_vars>>

\* evaluate after _parse_cv goes on to _parse_project, then to _evaluate_cv
AfterParse(doc) == IF doc = "cv" THEN At("plumber", "project") ELSE At("embed", "cv")

\* extract_text: "if text and len(text) > 100: return text"
Returns(outcome) == outcome = "text"

\* PDFParser.extract_text, the pdfplumber try: a missing file raises before
\* it; anything the extractor raises is logged and the next one is tried
Plumber(doc) ==
    /\ pc = At("plumber", doc)
    /\ \E outcome \in {"missing", "text", "short", "raise"} \cup Strike :
          /\ timed_out' = (timed_out \/ outcome = "timeout")
          /\ awaited' = [at |-> pc, outcome |-> outcome, attempt |-> attempt]
          /\ IF outcome = "missing"
             THEN Raise("File not found: " \o doc)
             ELSE /\ pc' = IF Returns(outcome) THEN AfterParse(doc)
                                               ELSE At("pypdf2", doc)
                  /\ exc' = exc
    /\ UNCHANGED <<store_vars, now, queue, request, keep_eval, lost>>
    /\ UNCHANGED <<resolved, generated, repair_vars, format_vars, scoring_vars, context_vars, pdf_vars, race_vars>>

\* PDFParser.extract_text, the PyPDF2 try, and the final raise ValueError
PyPDF2(doc) ==
    /\ pc = At("pypdf2", doc)
    /\ \E outcome \in {"text", "short", "raise"} \cup Strike :
          /\ timed_out' = (timed_out \/ outcome = "timeout")
          /\ awaited' = [at |-> pc, outcome |-> outcome, attempt |-> attempt]
          /\ IF Returns(outcome)
             THEN pc' = AfterParse(doc) /\ exc' = exc
             ELSE Raise("Could not extract text from PDF: " \o doc)
    /\ UNCHANGED <<store_vars, now, queue, request, keep_eval, lost>>
    /\ UNCHANGED <<resolved, generated, repair_vars, format_vars, scoring_vars, context_vars, pdf_vars, race_vars>>

\* the optional documents whose context is searched: every document of
\* cv_context; of project_context those whose title holds "case study"
Searched(doc, context) ==
    IF doc = "cv" THEN {Len(context)} ELSE 0..Len(context)

ContextOf(doc) == IF doc = "cv" THEN request.cv_context ELSE request.project_context

\* _evaluate_cv / _evaluate_project up to the query embedding:
\* generate_query_embeddings logs and re-raises
Embed(doc) ==
    /\ pc = At("embed", doc)
    /\ \E outcome \in {"embedding", "error"} \cup Strike,
          n \in Searched(doc, ContextOf(doc)) :
          /\ timed_out' = (timed_out \/ outcome = "timeout")
          /\ awaited' = [at |-> pc, outcome |-> outcome, attempt |-> attempt]
          /\ CASE outcome = "embedding" ->
                    /\ pc' = At("search", doc)
                    /\ to_search' = n
                    /\ exc' = exc
               [] outcome = "error" ->
                    /\ Raise("Embedding generation error")
                    /\ to_search' = to_search
               [] outcome = "timeout" ->
                    /\ Raise(SoftTimeLimitExceeded)
                    /\ to_search' = to_search
    /\ UNCHANGED <<store_vars, now, queue, request, attempt,
                   cv_formatted, project_formatted, lost>>
    /\ UNCHANGED <<resolved, generated, repair_vars, format_vars, scoring_vars, context_vars, pdf_vars, race_vars>>

\* one qdrant.search_with_filter of the loop over optional_docs: the call
\* stands in no try block, so what it raises leaves _evaluate_cv
Search(doc) ==
    /\ pc = At("search", doc)
    /\ to_search > 0
    /\ \E outcome \in {"contexts", "error"} \cup Strike :
          /\ timed_out' = (timed_out \/ outcome = "timeout")
          /\ awaited' = [at |-> pc, outcome |-> outcome, attempt |-> attempt]
          /\ CASE outcome = "contexts" ->
                    /\ to_search' = to_search - 1
                    /\ pc' = pc
                    /\ exc' = exc
               [] outcome = "error" ->
                    /\ Raise("Qdrant search error")
                    /\ to_search' = to_search
               [] outcome = "timeout" ->
                    /\ Raise(SoftTimeLimitExceeded)
                    /\ to_search' = to_search
    /\ UNCHANGED <<store_vars, now, queue, request, attempt,
                   cv_formatted, project_formatted, lost>>
    /\ UNCHANGED <<resolved, generated, repair_vars, format_vars, scoring_vars, context_vars, pdf_vars, race_vars>>

\* the loop is over: the prompt is built and generate_with_retry is called
BuildPrompt(doc) ==
    /\ pc = At("search", doc)
    /\ to_search = 0
    /\ pc' = At("generate", doc)
    /\ attempt' = 1
    /\ UNCHANGED <<store_vars, now, queue, request, timed_out, to_search,
                   cv_formatted, project_formatted, exc, lost>>
    /\ UNCHANGED <<awaited, resolved, generated, repair_vars, format_vars, scoring_vars, context_vars, pdf_vars, race_vars>>

\* @retry(stop=stop_after_attempt(3), ...)
stop_after_attempt == 3

\* Retries that allows one attempt more
Retries_OnceMore(n) == n <= stop_after_attempt

\* tenacity stopping after four attempts
Retries_FourAttempts(n) == n < 4

\* retry=retry_if_exception_type((Exception)), reraise=True: tenacity calls
\* again after any Exception until the last attempt
Retries(n) == n < stop_after_attempt

\* response = model.generate_content(...): one more call of the transport
Counted(n) ==
    IF DOMAIN n = {} THEN n ELSE [execution |-> n.execution + 1, job |-> n.job + 1]

\* the parse keeping what it could not parse
Parsed_Kept(outcome) == "dict"

\* json.loads, else clean_json_string and json.loads, then
\* normalize_json_fields: a dict, or an exception that the enclosing
\* "except Exception" turns into None
Parsed(outcome) == IF outcome = "json" THEN "dict" ELSE "none"

\* evaluate going to the synthesis as soon as one evaluation has returned
AfterEvaluate_Early(doc) == "synthesis"

AfterEvaluate(doc) == IF doc = "cv" THEN At("embed", "project") ELSE "synthesis"

\* one attempt of generate_with_retry inside the try of _evaluate_cv /
\* _evaluate_project, and the "except Exception: formatted = None" around it
Generate(doc) ==
    /\ pc = At("generate", doc)
    /\ \E outcome \in {"json", "prose", "error"} \cup Strike :
          /\ timed_out' = (timed_out \/ outcome = "timeout")
          /\ awaited' = [at |-> pc, outcome |-> outcome, attempt |-> attempt]
          /\ IF outcome \in {"error", "timeout"} /\ Retries(attempt)
             THEN /\ attempt' = attempt + 1
                  /\ UNCHANGED <<pc, cv_formatted, project_formatted, resolved>>
             ELSE /\ attempt' = IF doc = "cv" THEN 0 ELSE 1
                  /\ pc' = AfterEvaluate(doc)
                  /\ resolved' = resolved \cup {doc}
                  /\ cv_formatted' =
                        IF doc = "cv" THEN Parsed(outcome) ELSE cv_formatted
                  /\ project_formatted' =
                        IF doc = "project" THEN Parsed(outcome) ELSE project_formatted
    /\ generated' = Counted(generated)
    /\ UNCHANGED <<store_vars, now, queue, request, to_search, exc, lost>>
    /\ UNCHANGED <<repair_vars, format_vars, scoring_vars, context_vars, pdf_vars, race_vars>>

\* _generate_summary: one attempt of generate_with_retry, outside any try
\* block of the pipeline; its last exception leaves evaluate
Synthesis ==
    /\ pc = "synthesis"
    /\ \E outcome \in {"text", "error"} \cup Strike :
          /\ timed_out' = (timed_out \/ outcome = "timeout")
          /\ awaited' = [at |-> pc, outcome |-> outcome, attempt |-> attempt]
          /\ CASE outcome = "text" ->
                    /\ pc' = "complete"
                    /\ UNCHANGED <<attempt, exc>>
               [] outcome # "text" /\ Retries(attempt) ->
                    /\ attempt' = attempt + 1
                    /\ UNCHANGED <<pc, exc>>
               [] outcome # "text" /\ ~Retries(attempt) ->
                    /\ Raise(IF outcome = "timeout" THEN SoftTimeLimitExceeded
                                                   ELSE "Empty response from Gemini")
                    /\ attempt' = attempt
    /\ generated' = Counted(generated)
    /\ UNCHANGED <<store_vars, now, queue, request, to_search,
                   cv_formatted, project_formatted, lost>>
    /\ UNCHANGED <<resolved, repair_vars, format_vars, scoring_vars, context_vars, pdf_vars, race_vars>>

Evaluate ==
    \/ FindRole
    \/ \E doc \in Docs : Plumber(doc)
    \/ \E doc \in Docs : PyPDF2(doc)
    \/ \E doc \in Docs : Embed(doc)
    \/ \E doc \in Docs : Search(doc)
    \/ \E doc \in Docs : BuildPrompt(doc)
    \/ \E doc \in Docs : Generate(doc)
    \/ Synthesis

\* task_acks_late = True: the worker is lost before it acknowledges the
\* message, at any point of the task or after it, and the broker delivers
\* the message again
WorkerLost ==
    /\ pc # "idle"
    /\ lost < MaxLost
    /\ lost' = lost + 1
    /\ queue' = Append(queue, request)
    /\ pc' = "idle"
    /\ UNCHANGED <<store_vars, now, request, timed_out, attempt, to_search,
                   cv_formatted, project_formatted, exc>>
    /\ UNCHANGED <<awaited, resolved, generated, repair_vars, format_vars, scoring_vars, context_vars, pdf_vars, race_vars>>

----------------------------------------------------------------------------
\* One request, each task message delivered once

Next ==
    \/ Tick
    \/ evaluate_candidate
    \/ Deliver
    \/ SetProcessing
    \/ Evaluate
    \/ SetCompleted
    \/ HandleSoftTimeLimit
    \/ HandleException
    \/ Retry
    \/ Ack

Spec == Init /\ [][Next]_vars

\* One request, each task message delivered at least once

NextAtLeastOnce == Next \/ WorkerLost

SpecAtLeastOnce == Init /\ [][NextAtLeastOnce]_vars

\* client.setex(key, settings.redis_job_ttl, ...): the key is gone once its
\* time to live has run out
Expire ==
    /\ TheJob \in DOMAIN redis
    /\ redis' = [k \in DOMAIN redis \ {TheJob} |-> redis[k]]
    /\ UNCHANGED <<last, retrying_updates, calls, trail, now, task_vars>>
    /\ UNCHANGED <<repair_vars, format_vars, scoring_vars, context_vars, pdf_vars, race_vars>>

\* One request, whose record may expire at any moment

NextExpiry == Next \/ Expire

SpecExpiry == Init /\ [][NextExpiry]_vars

\* what the worker does with a message: it takes it, runs the task to its
\* end and acknowledges it
Worker ==
    \/ Deliver
    \/ SetProcessing
    \/ Evaluate
    \/ SetCompleted
    \/ HandleSoftTimeLimit
    \/ HandleException
    \/ Retry
    \/ Ack

\* One request, with a worker that keeps running: every await of the task
\* ends, and a message in the queue is taken
SpecLive == Init /\ [][Next]_vars /\ WF_vars(Worker)

\* One request, with the calls of the transport counted

TaskCounted ==
    /\ queue = <<>>
    /\ pc = "idle"
    /\ request = NoRequest
    /\ timed_out = FALSE
    /\ attempt = 0
    /\ to_search = 0
    /\ cv_formatted = "none"
    /\ project_formatted = "none"
    /\ exc = ""
    /\ lost = 0
    /\ awaited = NoStep
    /\ resolved = {}
    /\ generated = [execution |-> 0, job |-> 0]

CountedInit ==
    /\ StoreInit /\ TaskCounted /\ RepairIdle /\ FormatIdle /\ ScoringIdle /\ ContextIdle
    /\ PdfIdle /\ RaceIdle

NextCounted == evaluate_candidate \/ Worker

SpecCounted == CountedInit /\ [][NextCounted]_vars

----------------------------------------------------------------------------
\* Properties

Exists == TheJob \in DOMAIN redis

Job == redis[TheJob]

Terminal == {COMPLETED, FAILED}

AllowedChanges ==
    {<<QUEUED, PROCESSING>>, <<PROCESSING, COMPLETED>>, <<PROCESSING, FAILED>>,
     <<PROCESSING, RETRYING>>, <<RETRYING, PROCESSING>>}

C2_TerminalStays ==
    [][(Exists /\ Job.status \in Terminal)
         => (TheJob \in DOMAIN redis' /\ redis'[TheJob].status = Job.status)]_vars

ResultKeys == {"overall_summary", "formatted_result"}

C4_TimeoutFails ==
    (pc = "done" /\ timed_out /\ Exists) => (Job.status = FAILED /\ queue = <<>>)

Handled == pc \in {"retry", "done"} /\ exc \notin {"", SoftTimeLimitExceeded}

\* C6 as stated: after the third non-timeout failure in a row the job is FAILED.
C6_FailedAfterThree ==
    (Exists /\ Handled /\ request.retries = 2) => Job.status = FAILED

\* C6: after the fourth non-timeout failure in a row (the first execution and
\* max_retries = 3 retries) the job is FAILED, having gone QUEUED, PROCESSING,
\* then RETRYING, PROCESSING three times, then FAILED; after each of the
\* first three failures it is RETRYING.
C6_FailedAfterFour ==
    /\ (Exists /\ Handled /\ request.retries = max_retries)
          => /\ Job.status = FAILED
             /\ trail[TheJob] = <<QUEUED, PROCESSING, RETRYING, PROCESSING, RETRYING,
                                  PROCESSING, RETRYING, PROCESSING, FAILED>>
    /\ (Exists /\ Handled /\ request.retries < max_retries) => Job.status = RETRYING

\* four executions failed on a non-timeout error
C6_Witness ==
    /\ Exists
    /\ Handled
    /\ request.retries = max_retries
    /\ Job.status = FAILED
    /\ Len(trail[TheJob]) = 9

\* the step is one call of update_job_status
IsUpdate == calls' = calls + 1 /\ last'.op = "update"

\* C7: update_job_status on an id without a record raises the not-found
\* error and leaves the store as it was, whatever the arguments.
C7_UpdateMissing ==
    [][(IsUpdate /\ last'.id \notin DOMAIN redis)
         => (redis' = redis /\ last'.raised = NotFound(last'.id))]_vars

\* a COMPLETED update with a result and an error, on an id that has no record
C7_Witness ==
    /\ last.op = "update"
    /\ last.id \notin DOMAIN redis
    /\ last.raised = NotFound(last.id)
    /\ last.status = COMPLETED
    /\ TruthyDict(last.result)
    /\ TruthyStr(last.error)

Timestamps == {"updated_at", "completed_at"}

SameButTimestamps(a, b) ==
    /\ DOMAIN a = DOMAIN b
    /\ \A k \in DOMAIN a \ Timestamps : a[k] = b[k]

SameArgs(c, d) ==
    /\ c.op = d.op
    /\ c.id = d.id
    /\ c.status = d.status
    /\ c.result = d.result
    /\ c.error = d.error

\* C8: an update applied a second time in a row with the same arguments
\* leaves the record, timestamps aside, as the first application left it.
C8_Idempotent ==
    [][(IsUpdate /\ last.op = "update" /\ last.raised = "" /\ SameArgs(last, last'))
         => SameButTimestamps(redis'[last.id], redis[last.id])]_vars

\* C9: retry_count is 0 at creation, grows by exactly 1 with an update to
\* RETRYING, is left alone by an update to any other status, and so equals
\* the number of RETRYING updates applied.
C9_RetryCount ==
    /\ [](\A id \in DOMAIN redis : redis[id].retry_count = retrying_updates[id])
    /\ [][\A id \in DOMAIN redis' :
            IF id \notin DOMAIN redis
            THEN redis'[id].retry_count = 0
            ELSE redis'[id].retry_count =
                    IF IsUpdate /\ last'.id = id /\ last'.status = RETRYING
                    THEN redis[id].retry_count + 1
                    ELSE redis[id].retry_count]_vars

\* two RETRYING updates and then another update
C9_Witness ==
    \E id \in DOMAIN redis :
        /\ redis[id].retry_count = 2
        /\ redis[id].status = COMPLETED
        /\ last.op = "update"

CompletedAt(db, id) == DictGet(db[id], "completed_at", -1)

\* C10: completed_at is written only by an update that moves the job into
\* COMPLETED from another status; any other update, a repeated COMPLETED
\* update included, leaves it as it was.
C10_CompletedAt ==
    [][\A id \in DOMAIN redis' :
          IF id \notin DOMAIN redis
          THEN "completed_at" \notin DOMAIN redis'[id]
          ELSE CompletedAt(redis', id) # CompletedAt(redis, id)
                  => (IsUpdate /\ last'.id = id /\ last'.status = COMPLETED
                      /\ redis[id].status # COMPLETED)]_vars

----------------------------------------------------------------------------
\* Texts and JSON values (src/utils/validator.py, src/services/gemini_service.py)
\*
\* A text (a Python str) is a sequence of characters.  A word that no text
\* of the model splits (a field name, the fence tag json, a JSON literal, a
\* word of prose) is written as one element and is a run of word characters.
\* A JSON value is a record: t is its Python type, and the field of that
\* name holds its value (a dict: the function from its keys).  A
\* float is held in tenths (45 is 4.5); the texts of the model write at most
\* one fractional digit.

DQ == "\""

NL == "\n"

BS == "\\"

Digits == {"0", "1", "2", "3", "4", "5", "6", "7", "8", "9"}

DigitOf == [c \in Digits |-> CHOOSE n \in 0..9 : ToString(n) = c]

Spaces == {" ", NL}

\* the backtick
BT == "backtick"

Punctuation == {"{", "}", "[", "]", ":", ",", DQ, BS, BT, "/", "*", ".", "-", "!"}

\* \d, \s, \w of the re module
IsDigit(c) == c \in Digits

IsSpace(c) == c \in Spaces

IsWord(c) == c # "" /\ c \notin Spaces \cup Punctuation

IsSign(c) == c = "-"

\* s[i], or "" past the end of s
CharAt(s, i) == IF i \in 1..Len(s) THEN s[i] ELSE ""


\* the index after the longest run of digits / spaces / word characters
\* that starts at s[i]
RunDigits(s, i) ==
    IF i \notin 1..Len(s) THEN i ELSE
    CHOOSE j \in i..(Len(s) + 1) :
        /\ \A k \in i..(j - 1) : IsDigit(s[k])
        /\ ~IsDigit(CharAt(s, j))

RunSpaces(s, i) ==
    IF i \notin 1..Len(s) THEN i ELSE
    CHOOSE j \in i..(Len(s) + 1) :
        /\ \A k \in i..(j - 1) : IsSpace(s[k])
        /\ ~IsSpace(CharAt(s, j))

RunWord(s, i) ==
    IF i \notin 1..Len(s) THEN i ELSE
    CHOOSE j \in i..(Len(s) + 1) :
        /\ \A k \in i..(j - 1) : IsWord(s[k])
        /\ ~IsWord(CharAt(s, j))

\* the text t starts at s[i]
StartsAt(s, t, i) == i + Len(t) - 1 <= Len(s) /\ SubSeq(s, i, i + Len(t) - 1) = t

\* the first index from i on where the text t starts in s, 0 if nowhere
Find(s, t, i) ==
    LET at == {k \in i..Len(s) : StartsAt(s, t, k)}
    IN IF at = {} THEN 0 ELSE CHOOSE k \in at : \A l \in at : k <= l

\* int() of the digits s[i..j-1]
RECURSIVE DigitsValue(_, _, _)
DigitsValue(s, i, j) ==
    IF j <= i THEN 0 ELSE 10 * DigitsValue(s, i, j - 1) + DigitOf[s[j - 1]]

\* str.strip()
strip(s) ==
    LET inner == {k \in 1..Len(s) : ~IsSpace(s[k])}
    IN IF inner = {} THEN <<>>
       ELSE SubSeq(s, CHOOSE k \in inner : \A l \in inner : k <= l,
                      CHOOSE k \in inner : \A l \in inner : k >= l)

\* re.sub: m[i] is the index after the match that starts at s[i] (0: no
\* match there), r[i] what replaces it; matches are taken left to right and
\* do not overlap
RECURSIVE Sub(_, _, _, _)
Sub(s, m, r, i) ==
    LET matches == {k \in i..Len(s) : m[k] > 0}
        k == CHOOSE first \in matches : \A other \in matches : first <= other
    IN IF matches = {} THEN SubSeq(s, i, Len(s))
       ELSE SubSeq(s, i, k - 1) \o r[k] \o Sub(s, m, r, m[k])

ReSub(s, m, r) == Sub(s, m, r, 1)

AnInt(n) == [t |-> "int", int |-> n]

AFloat(tenths) == [t |-> "float", float |-> tenths]

AStr(s) == [t |-> "str", str |-> s]

ABool(b) == [t |-> "bool", bool |-> b]

None == [t |-> "None"]

ADict(d) == [t |-> "dict", dict |-> d]

AList(l) == [t |-> "list", list |-> l]

IsNumber(x) == x.t \in {"int", "float"}

\* a field name as a text
Name(n) == <<n>>

Fence == <<BT, BT, BT>>

\* re.sub(r'```json\s*', '', text)
StripJsonFences(s) ==
    ReSub(s,
          [i \in 1..Len(s) |->
              IF StartsAt(s, Fence \o <<"json">>, i)
              THEN RunSpaces(s, i + 4) ELSE 0],
          [i \in 1..Len(s) |-> <<>>])

\* re.sub(r'```\s*', '', text)
StripFences(s) ==
    ReSub(s,
          [i \in 1..Len(s) |->
              IF StartsAt(s, Fence, i) THEN RunSpaces(s, i + 3) ELSE 0],
          [i \in 1..Len(s) |-> <<>>])

\* re.sub(r',(\s*[}\]])', r'\1', text)
StripTrailingCommas(s) ==
    ReSub(s,
          [i \in 1..Len(s) |->
              IF s[i] = "," /\ CharAt(s, RunSpaces(s, i + 1)) \in {"}", "]"}
              THEN RunSpaces(s, i + 1) + 1 ELSE 0],
          [i \in 1..Len(s) |-> SubSeq(s, i + 1, RunSpaces(s, i + 1))])

\* re.sub(r'"\s*\n\s*"', '",\n"', text)
AddMissingCommas(s) ==
    ReSub(s,
          [i \in 1..Len(s) |->
              IF /\ s[i] = DQ
                 /\ CharAt(s, RunSpaces(s, i + 1)) = DQ
                 /\ \E k \in (i + 1)..(RunSpaces(s, i + 1) - 1) : s[k] = NL
              THEN RunSpaces(s, i + 1) + 1 ELSE 0],
          [i \in 1..Len(s) |-> <<DQ, ",", NL, DQ>>])

\* re.sub(r'//.*?\n', '\n', text)
StripLineComments(s) ==
    ReSub(s,
          [i \in 1..Len(s) |->
              IF StartsAt(s, <<"/", "/">>, i) /\ Find(s, <<NL>>, i + 2) > 0
              THEN Find(s, <<NL>>, i + 2) + 1 ELSE 0],
          [i \in 1..Len(s) |-> <<NL>>])

\* re.sub(r'/\*.*?\*/', '', text, flags=re.DOTALL)
StripBlockComments(s) ==
    ReSub(s,
          [i \in 1..Len(s) |->
              IF StartsAt(s, <<"/", "*">>, i) /\ Find(s, <<"*", "/">>, i + 2) > 0
              THEN Find(s, <<"*", "/">>, i + 2) + 2 ELSE 0],
          [i \in 1..Len(s) |-> <<>>])

\* clean_json_string that leaves the code fences in
clean_json_string_KeepFences(text) ==
    StripBlockComments(StripLineComments(AddMissingCommas(StripTrailingCommas(
        strip(text)))))

clean_json_string(text) ==
    StripBlockComments(StripLineComments(AddMissingCommas(StripTrailingCommas(
        strip(StripFences(StripJsonFences(text)))))))

----------------------------------------------------------------------------
\* json.loads and json.dumps

ParseFailed == [ok |-> FALSE, v |-> None, i |-> 0]

ParseOk(v, i) == [ok |-> TRUE, v |-> v, i |-> i]

\* a JSON number at s[i]: -? int frac?, no leading zero before a digit
ParseNumber(s, i) ==
    LET neg == IsSign(CharAt(s, i))
        a == IF neg THEN i + 1 ELSE i
        b == IF CharAt(s, a) = "0" THEN a + 1 ELSE RunDigits(s, a)
        frac == CharAt(s, b) = "." /\ IsDigit(CharAt(s, b + 1))
        c == RunDigits(s, b + 1)
        sign == IF neg THEN -1 ELSE 1
    IN IF b = a THEN ParseFailed
       ELSE IF frac
       THEN ParseOk(AFloat(sign * (10 * DigitsValue(s, a, b) + DigitOf[s[b + 1]])), c)
       ELSE ParseOk(AnInt(sign * DigitsValue(s, a, b)), b)

\* the characters of a JSON string whose opening quote is before s[i]:
\* a raw line break is an error, \n \" \\ are the escapes
RECURSIVE ParseChars(_, _, _)
ParseChars(s, i, acc) ==
    CASE i > Len(s) -> ParseFailed
      [] s[i] = DQ -> ParseOk(AStr(acc), i + 1)
      [] s[i] = NL -> ParseFailed
      [] s[i] = BS ->
            IF CharAt(s, i + 1) = "n" THEN ParseChars(s, i + 2, Append(acc, NL))
            ELSE IF CharAt(s, i + 1) \in {DQ, BS}
            THEN ParseChars(s, i + 2, Append(acc, s[i + 1]))
            ELSE ParseFailed
      [] OTHER -> ParseChars(s, i + 1, Append(acc, s[i]))

RECURSIVE ParseValue(_, _)
RECURSIVE ParseMembers(_, _, _)
RECURSIVE ParseElements(_, _, _)

\* the members of an object after "{" or after a ",": "key" : value
ParseMembers(s, i, acc) ==
    LET k == IF CharAt(s, RunSpaces(s, i)) = DQ
             THEN ParseChars(s, RunSpaces(s, i) + 1, <<>>) ELSE ParseFailed
        colon == RunSpaces(s, k.i)
        val == IF k.ok /\ CharAt(s, colon) = ":"
               THEN ParseValue(s, colon + 1) ELSE ParseFailed
        next == RunSpaces(s, val.i)
        \* a repeated key keeps its last value
        d == [key \in DOMAIN acc \cup {k.v.str} |->
                 IF key = k.v.str THEN val.v ELSE acc[key]]
    IN CASE ~val.ok -> ParseFailed
         [] CharAt(s, next) = "," -> ParseMembers(s, next + 1, d)
         [] CharAt(s, next) = "}" -> ParseOk(ADict(d), next + 1)
         [] OTHER -> ParseFailed

\* the elements of an array after "[" or after a ","
ParseElements(s, i, acc) ==
    LET val == ParseValue(s, i)
        next == RunSpaces(s, val.i)
    IN CASE ~val.ok -> ParseFailed
         [] CharAt(s, next) = "," -> ParseElements(s, next + 1, Append(acc, val.v))
         [] CharAt(s, next) = "]" -> ParseOk(AList(Append(acc, val.v)), next + 1)
         [] OTHER -> ParseFailed

ParseValue(s, i) ==
    LET a == RunSpaces(s, i)
        c == CharAt(s, a)
    IN CASE c = DQ -> ParseChars(s, a + 1, <<>>)
         [] c = "{" ->
               IF CharAt(s, RunSpaces(s, a + 1)) = "}"
               THEN ParseOk(ADict(<<>>), RunSpaces(s, a + 1) + 1)
               ELSE ParseMembers(s, a + 1, <<>>)
         [] c = "[" ->
               IF CharAt(s, RunSpaces(s, a + 1)) = "]"
               THEN ParseOk(AList(<<>>), RunSpaces(s, a + 1) + 1)
               ELSE ParseElements(s, a + 1, <<>>)
         [] c = "null" -> ParseOk(None, a + 1)
         [] c = "true" -> ParseOk(ABool(TRUE), a + 1)
         [] c = "false" -> ParseOk(ABool(FALSE), a + 1)
         [] IsDigit(c) \/ IsSign(c) -> ParseNumber(s, a)
         [] OTHER -> ParseFailed

\* json.loads(text): ok is FALSE where it raises json.JSONDecodeError
loads(text) ==
    LET r == ParseValue(text, 1)
    IN IF r.ok /\ RunSpaces(text, r.i) = Len(text) + 1 THEN r ELSE ParseFailed

\* str(n) of an integer n >= 0, then of any integer
RECURSIVE NatText(_)
NatText(n) == IF n < 10 THEN <<ToString(n)>> ELSE Append(NatText(n \div 10), ToString(n % 10))

IntText(n) == IF n < 0 THEN <<"-">> \o NatText(-n) ELSE NatText(n)

\* repr of a float held in tenths: 45 is 4.5, 40 is 4.0, -5 is -0.5
FloatText(x) ==
    LET a == IF x < 0 THEN -x ELSE x
    IN (IF x < 0 THEN <<"-">> ELSE <<>>) \o NatText(a \div 10) \o <<".">> \o NatText(a % 10)

\* a string between quotes, with the escapes of json.dumps
RECURSIVE Escaped(_)
Escaped(s) ==
    IF s = <<>> THEN <<>>
    ELSE (CASE Head(s) = NL -> <<BS, "n">>
            [] Head(s) \in {DQ, BS} -> <<BS, Head(s)>>
            [] OTHER -> <<Head(s)>>) \o Escaped(Tail(s))

Quoted(s) == <<DQ>> \o Escaped(s) \o <<DQ>>

RECURSIVE dumps(_)
RECURSIVE DumpMembers(_, _)
RECURSIVE DumpElements(_)

\* the members of the dict d whose keys are in keys, separated by ", "
DumpMembers(d, keys) ==
    IF keys = {} THEN <<>>
    ELSE LET k == CHOOSE key \in keys : TRUE
         IN Quoted(k) \o <<":", " ">> \o dumps(d[k])
            \o (IF keys = {k} THEN <<>> ELSE <<",", " ">>)
            \o DumpMembers(d, keys \ {k})

DumpElements(l) ==
    IF l = <<>> THEN <<>>
    ELSE dumps(Head(l)) \o (IF Len(l) = 1 THEN <<>> ELSE <<",", " ">>)
         \o DumpElements(Tail(l))

\* json.dumps(value)
dumps(x) ==
    CASE x.t = "int" -> IntText(x.int)
      [] x.t = "float" -> FloatText(x.float)
      [] x.t = "str" -> Quoted(x.str)
      [] x.t = "bool" -> IF x.bool THEN <<"true">> ELSE <<"false">>
      [] x.t = "None" -> <<"null">>
      [] x.t = "list" -> <<"[">> \o DumpElements(x.list) \o <<"]">>
      [] x.t = "dict" -> <<"{">> \o DumpMembers(x.dict, DOMAIN x.dict) \o <<"}">>

----------------------------------------------------------------------------
\* normalize_json_fields and validate_score_range, src/utils/validator.py

score_fields ==
    {"technical_skills", "experience_level", "achievements", "cultural_fit",
     "correctness", "code_quality", "resilience", "documentation", "creativity"}

IsScoreField(k) == \E f \in score_fields : k = Name(f)

\* the index after the number -?\d+(?:\.\d+)? that starts at s[i], 0 if none
NumberEnd(s, i) ==
    LET a == IF IsSign(CharAt(s, i)) THEN i + 1 ELSE i
        b == RunDigits(s, a)
    IN IF b = a THEN 0
       ELSE IF CharAt(s, b) = "." /\ IsDigit(CharAt(s, b + 1)) THEN RunDigits(s, b + 1)
       ELSE b

\* float(num_str) if "." in num_str else int(num_str)
NumberOf(num_str) ==
    LET neg == IsSign(CharAt(num_str, 1))
        a == IF neg THEN 2 ELSE 1
        b == RunDigits(num_str, a)
        sign == IF neg THEN -1 ELSE 1
    IN IF b <= Len(num_str)
       THEN AFloat(sign * (10 * DigitsValue(num_str, a, b) + DigitOf[num_str[b + 1]]))
       ELSE AnInt(sign * DigitsValue(num_str, a, b))

\* where re.search(r"(?<!\d)([1-5])(?!\d)", s) matches
LoneScores(s) ==
    {i \in 1..Len(s) : /\ s[i] \in {"1", "2", "3", "4", "5"}
                       /\ ~IsDigit(CharAt(s, i - 1))
                       /\ ~IsDigit(CharAt(s, i + 1))}

\* where re.search(r"(-?\d+(?:\.\d+)?)", s) matches
Numbers(s) == {i \in 1..Len(s) : NumberEnd(s, i) > 0}

First(S) == CHOOSE i \in S : \A j \in S : i <= j

coerce_num(val) ==
    IF val.t # "str" THEN val
    ELSE LET s == strip(val.str)
         IN CASE NumberEnd(s, 1) > 0 -> NumberOf(SubSeq(s, 1, NumberEnd(s, 1) - 1))
              [] NumberEnd(s, 1) = 0 /\ LoneScores(s) # {} ->
                    NumberOf(<<s[First(LoneScores(s))]>>)
              [] NumberEnd(s, 1) = 0 /\ LoneScores(s) = {} /\ Numbers(s) # {} ->
                    NumberOf(SubSeq(s, First(Numbers(s)),
                                    NumberEnd(s, First(Numbers(s))) - 1))
              [] OTHER -> val

\* str(x) of a list item
PyStr(x) ==
    CASE x.t = "str" -> x.str
      [] x.t = "int" -> IntText(x.int)
      [] x.t = "float" -> FloatText(x.float)
      [] x.t = "bool" -> IF x.bool THEN <<"True">> ELSE <<"False">>
      [] x.t = "None" -> <<"None">>

\* "; ".join(items)
RECURSIVE Join(_)
Join(items) ==
    IF items = <<>> THEN <<>>
    ELSE IF Len(items) = 1 THEN Head(items)
    ELSE Head(items) \o <<";", " ">> \o Join(Tail(items))

Stripped(rv) == [i \in 1..Len(rv) |-> strip(PyStr(rv[i]))]

\* the reasoning a list is turned into: the non-blank items joined, and
\* item_<i+1> -> item
ListReasoning(rv) ==
    ADict([k \in {Name("summary"), Name("details")} |->
            IF k = Name("summary")
            THEN AStr(Join(SelectSeq(Stripped(rv), LAMBDA x : x # <<>>)))
            ELSE ADict([item \in {Name("item_" \o ToString(i)) : i \in 1..Len(rv)} |->
                         AStr(Stripped(rv)[CHOOSE i \in 1..Len(rv) :
                                             item = Name("item_" \o ToString(i))])])])

\* the first loop of normalize_json_fields, for the key k of data
Coerced(data, k) ==
    LET v == data[k]
    IN CASE IsScoreField(k) -> coerce_num(v)
         [] ~IsScoreField(k) /\ k = Name("scores") /\ v.t = "dict" ->
               ADict([sk \in DOMAIN v.dict |->
                        IF IsScoreField(sk) THEN coerce_num(v.dict[sk]) ELSE v.dict[sk]])
         [] ~IsScoreField(k) /\ ~(k = Name("scores") /\ v.t = "dict") /\ v.t = "str" ->
               AStr(strip(v.str))
         [] OTHER -> v

\* the reasoning branch of normalize_json_fields
Reasoning(rv) ==
    CASE rv.t = "str" /\ strip(rv.str) # <<>> ->
            ADict([k \in {Name("summary")} |-> AStr(strip(rv.str))])
      [] rv.t = "list" -> ListReasoning(rv.list)
      [] rv.t = "None" -> ADict(<<>>)
      [] OTHER -> rv

\* normalize_json_fields(data): what is no dict is returned as it is
normalize_json_fields(data) ==
    IF data.t # "dict" THEN data
    ELSE ADict([k \in DOMAIN data.dict |->
                  IF k = Name("reasoning") THEN Reasoning(Coerced(data.dict, k))
                  ELSE Coerced(data.dict, k)])

\* round(value) of Python 3 for a value in tenths: halves go to the even side
round(tenths) ==
    LET q == tenths \div 10
        r == tenths % 10
    IN IF r < 5 THEN q
       ELSE IF r > 5 THEN q + 1
       ELSE IF q % 2 = 0 THEN q ELSE q + 1

\* an int, float or bool (isinstance(value, (int, float))), in tenths
Tenths(value) ==
    CASE value.t = "int" -> 10 * value.int
      [] value.t = "float" -> value.float
      [] value.t = "bool" -> IF value.bool THEN 10 ELSE 0

\* Clamped without the rounding of values within 1..5
Clamped_NoRound(value) ==
    IF value.t \notin {"int", "float", "bool"} THEN value
    ELSE IF Tenths(value) < 10 THEN AnInt(1)
    ELSE IF Tenths(value) > 50 THEN AnInt(5)
    ELSE value

Clamped(value) ==
    IF value.t \notin {"int", "float", "bool"} THEN value
    ELSE IF Tenths(value) < 10 THEN AnInt(1)
    ELSE IF Tenths(value) > 50 THEN AnInt(5)
    ELSE AnInt(round(Tenths(value)))

\* validate_score_range(data), data a dict
validate_score_range(data) ==
    ADict([k \in DOMAIN data.dict |->
             IF IsScoreField(k) THEN Clamped(data.dict[k]) ELSE data.dict[k]])

----------------------------------------------------------------------------
\* The expected models (src/models/evaluate.py) and their validation

\* FieldInfo.default of a field declared without a default
PydanticUndefined == [t |-> "PydanticUndefined"]

\* technical_skills: int = Field(ge=1, le=5, ...)
ScoreField == [annotation |-> "int", default |-> PydanticUndefined]

ge == 1

le == 5

CVScoring ==
    [k \in {Name("technical_skills"), Name("experience_level"),
            Name("achievements"), Name("cultural_fit")} |-> ScoreField]

ProjectScoring ==
    [k \in {Name("correctness"), Name("code_quality"), Name("resilience"),
            Name("documentation"), Name("creativity")} |-> ScoreField]

\* the models whose fields are scores
ExpectedModels == {"CVScoring", "ProjectScoring"}

\* expected_model.model_fields
model_fields(model) ==
    CASE model = "CVScoring" -> CVScoring
      [] model = "ProjectScoring" -> ProjectScoring

\* the validation of one field: a field without a default is required; an
\* int field takes an int, or a float without a fractional part, within
\* ge..le
FieldValue(field_info, data, k) ==
    IF /\ k \in DOMAIN data
       /\ field_info.annotation = "int"
       /\ data[k].t \in {"int", "float"}
       /\ Tenths(data[k]) % 10 = 0
       /\ Tenths(data[k]) \div 10 \in ge..le
    THEN [ok |-> TRUE, v |-> AnInt(Tenths(data[k]) \div 10)]
    ELSE [ok |-> FALSE, v |-> None]

\* expected_model(**data).model_dump(): ok is FALSE where the constructor
\* raises ValidationError; keys the model does not declare are ignored
Validated(model, data) ==
    LET fields == model_fields(model)
    IN [ok |-> \A k \in DOMAIN fields : FieldValue(fields[k], data.dict, k).ok,
        v |-> ADict([k \in DOMAIN fields |-> FieldValue(fields[k], data.dict, k).v])]

----------------------------------------------------------------------------
\* extract_json_with_regex, fill_missing_fields, get_default_value

\* a match of a "field: value" pattern at s[i]: the index after it (0: no
\* match), the field and the value
NoMatch == [end |-> 0, field |-> <<>>, value |-> None]

\* r'"?(\w+)"?\s*:\s*' at s[i]: where the value starts, 0 if no match
KeyEnd(s, i, quoted) ==
    LET a == IF CharAt(s, i) = DQ THEN i + 1 ELSE i
        b == RunWord(s, a)
        c == IF CharAt(s, b) = DQ THEN b + 1 ELSE b
        d == RunSpaces(s, c)
    IN IF /\ b > a
          /\ CharAt(s, d) = ":"
          /\ quoted => (CharAt(s, i) = DQ /\ CharAt(s, b) = DQ)
       THEN RunSpaces(s, d + 1) ELSE 0

KeyOf(s, i) ==
    LET a == IF CharAt(s, i) = DQ THEN i + 1 ELSE i
    IN SubSeq(s, a, RunWord(s, a) - 1)

\* score_pattern = r'"?(\w+)"?\s*:\s*(\d)', with int(value)
ScoreMatch(s, i) ==
    LET e == KeyEnd(s, i, FALSE)
    IN IF e > 0 /\ IsDigit(CharAt(s, e))
       THEN [end |-> e + 1, field |-> KeyOf(s, i), value |-> AnInt(DigitOf[s[e]])]
       ELSE NoMatch

\* float_pattern = r'"?(\w+)"?\s*:\s*(\d+\.?\d*)', with float(value)
FloatMatch(s, i) ==
    LET e == KeyEnd(s, i, FALSE)
        b == RunDigits(s, e)
        c == IF CharAt(s, b) = "." THEN RunDigits(s, b + 1) ELSE b
        frac == IF c > b + 1 THEN DigitOf[s[b + 1]] ELSE 0
    IN IF e > 0 /\ IsDigit(CharAt(s, e))
       THEN [end |-> c, field |-> KeyOf(s, i),
             value |-> AFloat(10 * DigitsValue(s, e, b) + frac)]
       ELSE NoMatch

\* string_pattern = r'"(\w+)"\s*:\s*"([^"]*)"'
StringMatch(s, i) ==
    LET e == KeyEnd(s, i, TRUE)
        close == Find(s, <<DQ>>, e + 1)
    IN IF e > 0 /\ CharAt(s, e) = DQ /\ close > 0
       THEN [end |-> close + 1, field |-> KeyOf(s, i),
             value |-> AStr(SubSeq(s, e + 1, close - 1))]
       ELSE NoMatch

\* value.replace('\n', ' ')
ReplaceNL(s) == [i \in 1..Len(s) |-> IF s[i] = NL THEN " " ELSE s[i]]

\* multiline_pattern = r'"(\w+)"\s*:\s*"([^"]*(?:\n[^"]*)*)"', with
\* value.replace('\n', ' ').strip()
MultilineMatch(s, i) ==
    LET m == StringMatch(s, i)
    IN IF m.end > 0 THEN [m EXCEPT !.value = AStr(strip(ReplaceNL(m.value.str)))]
       ELSE NoMatch

\* for match in re.finditer(pattern, text): result[field] = value, for the
\* fields of the model; if_absent is the "field not in result" condition
RECURSIVE Extracted(_, _, _, _, _, _)
Extracted(s, i, m, fields, if_absent, result) ==
    LET matches == {k \in i..Len(s) : m[k].end > 0}
        k == CHOOSE first \in matches : \A other \in matches : first <= other
    IN IF matches = {} THEN result
       ELSE Extracted(s, m[k].end, m, fields, if_absent,
                      IF /\ m[k].field \in fields
                         /\ if_absent => m[k].field \notin DOMAIN result
                      THEN [f \in DOMAIN result \cup {m[k].field} |->
                               IF f = m[k].field THEN m[k].value ELSE result[f]]
                      ELSE result)

extract_json_with_regex(text, model) ==
    LET fields == DOMAIN model_fields(model)
        at == 1..Len(text)
        scores == Extracted(text, 1, [i \in at |-> ScoreMatch(text, i)],
                            fields, FALSE, <<>>)
        floats == Extracted(text, 1, [i \in at |-> FloatMatch(text, i)],
                            fields, TRUE, scores)
        strings == Extracted(text, 1, [i \in at |-> StringMatch(text, i)],
                             fields, FALSE, floats)
    IN ADict(Extracted(text, 1, [i \in at |-> MultilineMatch(text, i)],
                       fields, TRUE, strings))

\* which of the words 'score', 'feedback', 'summary', 'rate' a declared
\* field name holds: none of the nine names holds one
Holds(field_name, word) == FALSE

ManualReview == <<"Evaluation incomplete - please review manually">>

\* hasattr(annotation, '__origin__') and annotation.__origin__ is
\* type(None): int has no __origin__
OriginIsNoneType(annotation) == FALSE

get_default_value(field_name, field_info) ==
    CASE field_info.default # None -> field_info.default
      [] field_info.default = None /\ OriginIsNoneType(field_info.annotation) -> None
      [] field_info.default = None /\ ~OriginIsNoneType(field_info.annotation)
           /\ (Holds(field_name, "score") \/ IsScoreField(field_name)) -> AnInt(3)
      [] OTHER ->
           IF Holds(field_name, "feedback") \/ Holds(field_name, "summary")
           THEN AStr(ManualReview)
           ELSE IF Holds(field_name, "rate") THEN AFloat(6)
           ELSE IF field_info.annotation = "str" THEN AStr(<<>>)
           ELSE IF field_info.annotation = "int" THEN AnInt(0)
           ELSE IF field_info.annotation = "float" THEN AFloat(0)
           ELSE None

fill_missing_fields(data, model) ==
    LET fields == model_fields(model)
    IN ADict([k \in DOMAIN data.dict \cup DOMAIN fields |->
                 IF k \in DOMAIN data.dict THEN data.dict[k]
                 ELSE get_default_value(k, fields[k])])

----------------------------------------------------------------------------
\* validate_and_repair_json, src/utils/validator.py

JSONDecodeError == "JSONDecodeError"

ValidationError == "ValidationError"

TypeError == "TypeError"

ValueError == "ValueError"

Exceptions == {JSONDecodeError, ValidationError, TypeError, ValueError}

Raised(e, data) == [exc |-> e, data |-> data, validated |-> None]

\* data = normalize_json_fields(data); data = validate_score_range(data);
\* validated = expected_model(**data); return validated.model_dump()
\* Data that is no dict raises TypeError: "field in data" does for a
\* number, a bool and None, "**data" does for a str and a list
Repaired(data, model) ==
    LET normal == normalize_json_fields(data)
        ranged == validate_score_range(normal)
    IN IF normal.t # "dict" THEN Raised(TypeError, normal)
       ELSE IF ~Validated(model, ranged).ok THEN Raised(ValidationError, ranged)
       ELSE [exc |-> "", data |-> ranged, validated |-> Validated(model, ranged).v]

\* json.loads(text), then the repair
Loaded(text, model) ==
    IF loads(text).ok THEN Repaired(loads(text).v, model)
    ELSE Raised(JSONDecodeError, None)

\* the try block of each stage
Direct(text, model) == Loaded(text, model)

Cleaned(text, model) == Loaded(clean_json_string(text), model)

Regex(text, model) == Repaired(extract_json_with_regex(text, model), model)

Filled(text, model) ==
    Repaired(fill_missing_fields(extract_json_with_regex(text, model), model),
             model)

\* what the except clause of each stage catches
Catches(n) ==
    CASE n \in {1, 2} -> {JSONDecodeError, ValidationError}
      [] n = 3 -> {ValidationError}
      [] n = 4 -> Exceptions

Stages == 1..4

PcOf(n) == "stage" \o ToString(n)

\* stage n has run with the outcome tried: it returns, or its except clause
\* goes on to the next stage (stage 4: raises ValueError), or what it
\* raised leaves validate_and_repair_json
StageDone(n, tried) ==
    /\ attempted' = Append(attempted, n)
    /\ repair_data' = tried.data
    /\ CASE tried.exc = "" ->
              /\ repair_pc' = "returned"
              /\ validated' = tried.validated
              /\ raised' = raised
         [] tried.exc # "" /\ tried.exc \in Catches(n) /\ n < 4 ->
              /\ repair_pc' = PcOf(n + 1)
              /\ UNCHANGED <<validated, raised>>
         [] tried.exc # "" /\ tried.exc \in Catches(n) /\ n = 4 ->
              /\ repair_pc' = "raised"
              /\ raised' = ValueError
              /\ validated' = validated
         [] OTHER ->
              /\ repair_pc' = "raised"
              /\ raised' = tried.exc
              /\ validated' = validated
    /\ UNCHANGED <<json_str, expected_model>>

Stage1 ==
    /\ repair_pc = PcOf(1)
    /\ StageDone(1, Direct(json_str, expected_model))
    /\ UNCHANGED <<store_vars, now, task_vars, format_vars, scoring_vars, context_vars, pdf_vars, race_vars>>

Stage2 ==
    /\ repair_pc = PcOf(2)
    /\ StageDone(2, Cleaned(json_str, expected_model))
    /\ UNCHANGED <<store_vars, now, task_vars, format_vars, scoring_vars, context_vars, pdf_vars, race_vars>>

Stage3 ==
    /\ repair_pc = PcOf(3)
    /\ StageDone(3, Regex(json_str, expected_model))
    /\ UNCHANGED <<store_vars, now, task_vars, format_vars, scoring_vars, context_vars, pdf_vars, race_vars>>

Stage4 ==
    /\ repair_pc = PcOf(4)
    /\ StageDone(4, Filled(json_str, expected_model))
    /\ UNCHANGED <<store_vars, now, task_vars, format_vars, scoring_vars, context_vars, pdf_vars, race_vars>>

----------------------------------------------------------------------------
\* validate_and_repair_json called once, with any text of Texts and any
\* expected model

\* the integers a text writes for a score
MaxInt == 12

\* the length of the feedback strings a text writes
MaxFeedback == 3

\* the fractional scores a text writes, in tenths
Fractions == {5, 15, 25, 45, 47, 55}

\* what a text writes for technical_skills
ScoreValues ==
    {AnInt(n) : n \in (-1)..MaxInt}
    \cup {AFloat(x) : x \in Fractions}
    \cup {AStr(IntText(n)) : n \in {-1, 0, 4, 7}}
    \cup {AStr(FloatText(x)) : x \in {25, 47}}
    \cup {AStr(<<"4", "/", "5">>), AStr(<<"good">>), AStr(<<" ", "3", " ">>), None}

\* what a text writes for reasoning
ReasoningValues ==
    {AStr(<<"solid">>), AStr(<<>>), AStr(<<" ">>), None, AnInt(4),
     AList(<<AStr(<<"solid">>), AStr(<<" ">>), AnInt(4)>>), AList(<<>>),
     ADict([k \in {Name("technical_skills")} |-> AStr(<<"2", " ", "years">>)])}

FeedbackChars == {"a", ",", "}"}

\* what a text writes for cv_feedback
Feedbacks == UNION {[1..n -> FeedbackChars] : n \in 0..MaxFeedback}

\* a CVScoring object, with more members
CVObject(technical_skills, more) ==
    ADict([k \in DOMAIN CVScoring \cup DOMAIN more |->
              CASE k \in DOMAIN more -> more[k]
                [] k = Name("technical_skills") -> technical_skills
                [] k = Name("experience_level") -> AnInt(3)
                [] k = Name("achievements") -> AnInt(5)
                [] k = Name("cultural_fit") -> AnInt(2)])

ProjectObject == ADict([k \in DOMAIN ProjectScoring |-> AnInt(4)])

With(name, value) == [k \in {Name(name)} |-> value]

\* the shapes a model's answer comes in: the JSON text, in a code fence
\* with or without the json tag, cut before its closing brace, after prose
Fenced(text) == Fence \o <<"json", NL>> \o text \o <<NL>> \o Fence

Untagged(text) == Fence \o <<NL>> \o text \o <<NL>> \o Fence

Truncated(text) == SubSeq(text, 1, Len(text) - 1)

Announced(text) == <<"Here", " ", "is", " ", "the", " ", "evaluation", ":", NL>> \o text

Shaped(text) == {text, Fenced(text), Untagged(text), Truncated(text), Announced(text)}

\* texts that hold no JSON at all
Prose == {<<"I", " ", "cannot", " ", "evaluate", " ", "this", " ", "candidate", ".">>,
          <<"Sorry", "!">>}

\* JSON texts that are no object
Bare == {dumps(AnInt(3)), dumps(None), dumps(AStr(<<"good">>)),
         dumps(AList(<<AnInt(1), AnInt(2)>>)), Fenced(dumps(AnInt(3)))}

Texts ==
    UNION {Shaped(dumps(CVObject(v, <<>>))) : v \in ScoreValues}
    \cup UNION {{dumps(CVObject(AnInt(4), With("reasoning", r))),
                 Truncated(dumps(CVObject(AnInt(4), With("reasoning", r))))} :
                r \in ReasoningValues}
    \cup {Fenced(dumps(CVObject(AnInt(4), With("cv_feedback", AStr(f))))) :
             f \in Feedbacks}
    \cup Shaped(dumps(ProjectObject))
    \cup Prose \cup Bare

RepairInit ==
    /\ json_str \in Texts
    /\ expected_model \in ExpectedModels
    /\ repair_pc = PcOf(1)
    /\ attempted = <<>>
    /\ repair_data = None
    /\ validated = None
    /\ raised = ""

RepairNext == Stage1 \/ Stage2 \/ Stage3 \/ Stage4

\* nothing else of the program runs
RepairAlone ==
    StoreInit /\ TaskIdle /\ RepairInit /\ FormatIdle /\ ScoringIdle /\ ContextIdle /\ PdfIdle /\ RaceIdle

SpecRepair == RepairAlone /\ [][RepairNext]_vars

----------------------------------------------------------------------------
\* _evaluate_cv and _evaluate_project turning the model's answer into
\* cv_formatted and project_formatted

\* generate_with_retry(json_mode=True) returns clean_json_string(text);
\* json.loads of it, or of clean_json_string of it; {"cv": {...}} or
\* {"project": {...}} is unwrapped; normalize_json_fields; an exception
\* is caught by "except Exception" and leaves None
FormattedResult(text, doc) ==
    LET formatted_text == clean_json_string(text)
        parsed == IF loads(formatted_text).ok THEN loads(formatted_text)
                  ELSE loads(clean_json_string(formatted_text))
        wrapped == /\ parsed.v.t = "dict"
                   /\ Name(doc) \in DOMAIN parsed.v.dict
                   /\ parsed.v.dict[Name(doc)].t = "dict"
    IN IF ~parsed.ok THEN None
       ELSE normalize_json_fields(IF wrapped THEN parsed.v.dict[Name(doc)] ELSE parsed.v)

\* the try block of _evaluate_cv (doc = "cv") or _evaluate_project
Format(doc) ==
    /\ response_text # <<>>
    /\ doc \notin DOMAIN formatted
    /\ formatted' = [d \in DOMAIN formatted \cup {doc} |->
                        IF d = doc THEN FormattedResult(response_text, doc) ELSE formatted[d]]
    /\ UNCHANGED <<store_vars, now, task_vars, pdf_vars, race_vars, repair_vars, scoring_vars, context_vars,
                   response_text, prompt_args>>

\* Python's truth value of a JSON value
Truthy(x) ==
    CASE x.t = "None" -> FALSE
      [] x.t = "bool" -> x.bool
      [] x.t = "int" -> x.int # 0
      [] x.t = "float" -> x.float # 0
      [] x.t = "str" -> x.str # <<>>
      [] x.t = "list" -> x.list # <<>>
      [] x.t = "dict" -> DOMAIN x.dict # {}

\* a or b
Or(a, b) == IF Truthy(a) THEN a ELSE b

\* obj.get(key)
Get(obj, key) == IF Name(key) \in DOMAIN obj.dict THEN obj.dict[Name(key)] ELSE None

\* obj.get(key) if obj else None, for the nested_cv and nested_proj that
\* are a dict or None
GetIf(obj, key) == IF obj.t = "dict" /\ Truthy(obj) THEN Get(obj, key) ELSE None

\* a / b rounded to the nearest integer, halves to the even side, as
\* round(x, ndigits) rounds a quotient held in units of the last digit
RoundDiv(a, b) ==
    LET q == a \div b
        r == a % b
    IN IF 2 * r < b THEN q
       ELSE IF 2 * r > b THEN q + 1
       ELSE IF q % 2 = 0 THEN q ELSE q + 1

\* [v for v in obj.values() if isinstance(v, (int, float))], by key
NumericKeys(obj) == {k \in DOMAIN obj : obj[k].t \in {"int", "float", "bool"}}

\* sum(numeric_values), in tenths
RECURSIVE SumTenths(_, _)
SumTenths(obj, keys) ==
    IF keys = {} THEN 0
    ELSE LET k == CHOOSE x \in keys : TRUE
         IN Tenths(obj[k]) + SumTenths(obj, keys \ {k})

NoAvg == [ok |-> FALSE, thousandths |-> 0]

\* _avg_from_scores(obj): None, or round(sum / len, 3), in thousandths
avg_from_scores(obj) ==
    IF obj.t # "dict" \/ NumericKeys(obj.dict) = {} THEN NoAvg
    ELSE [ok |-> TRUE,
          thousandths |-> RoundDiv(100 * SumTenths(obj.dict, NumericKeys(obj.dict)),
                                   Cardinality(NumericKeys(obj.dict)))]

\* x or {}
OrEmpty(x) == Or(x, ADict(<<>>))

\* cv_formatted.get("cv") if it is a dict, else None
Inner(obj, key) == IF Get(obj, key).t = "dict" THEN Get(obj, key) ELSE None

\* cv_match_rate: round(avg / 5.0, 3) of the scores object, else 0.0; in
\* thousandths
cv_match_rate(cv_formatted_) ==
    LET obj == OrEmpty(cv_formatted_)
        nested_cv == Inner(obj, "cv")
        scores_obj == Or(Get(obj, "scores"),
                      Or(Get(obj, "cv_scores"),
                      Or(Get(obj, "scores_cv"),
                      Or(GetIf(nested_cv, "scores"), GetIf(nested_cv, "cv_scores")))))
    IN IF obj.t = "dict" /\ avg_from_scores(scores_obj).ok
       THEN RoundDiv(avg_from_scores(scores_obj).thousandths, 5)
       ELSE 0

\* project_score: round(avg, 2) of the scores object, which is the result
\* itself when it names no scores; else 0.0; in thousandths
project_score(project_formatted_) ==
    LET obj == OrEmpty(project_formatted_)
        nested_proj == Inner(obj, "project")
        scores_obj == Or(Get(obj, "scores"),
                      Or(Get(obj, "project_scores"),
                      Or(GetIf(nested_proj, "scores"),
                      Or(GetIf(nested_proj, "project_scores"), obj))))
    IN IF obj.t = "dict" /\ avg_from_scores(scores_obj).ok
       THEN 10 * RoundDiv(avg_from_scores(scores_obj).thousandths, 10)
       ELSE 0

\* cv_feedback and project_feedback: the document's own feedback key or
\* "feedback", else ""
feedback(formatted_, key) ==
    LET obj == OrEmpty(formatted_)
    IN IF obj.t = "dict"
       THEN Or(Or(Get(obj, key), Get(obj, "feedback")), AStr(<<>>))
       ELSE AStr(<<>>)

\* _generate_summary up to get_final_synthesis_prompt
GenerateSummary ==
    /\ DOMAIN formatted = Docs
    /\ DOMAIN prompt_args = {}
    /\ prompt_args' = [cv_match_rate |-> cv_match_rate(formatted["cv"]),
                       cv_feedback |-> feedback(formatted["cv"], "cv_feedback"),
                       project_score |-> project_score(formatted["project"]),
                       project_feedback |-> feedback(formatted["project"], "project_feedback")]
    /\ UNCHANGED <<store_vars, now, task_vars, pdf_vars, race_vars, repair_vars, scoring_vars, context_vars,
                   response_text, formatted>>

\* an answer that wraps the object: {"cv": {...}}
Wrapped(doc, object) == ADict([k \in {Name(doc)} |-> object])

\* an answer that nests the scores: {"scores": {...}}
Nested(object) == ADict([k \in {Name("scores")} |-> object])

\* feedback strings a good answer may hold: a URL, a block comment, a comma
\* before a bracket, a code fence
Remarks == {<<"see", " ", "http", ":", "/", "/", "x">>,
            <<"a", " ", "/", "*", " ", "b", " ", "*", "/">>,
            <<"a", ",", "]">>,
            <<"use", " ", BT, BT, BT, "x", BT, BT, BT>>,
            <<"ok">>}

\* a valid JSON object on two lines: {"cv_feedback": "...",\n"technical_skills": 4}
TwoLines(remark) ==
    <<"{">> \o Quoted(<<"cv_feedback">>) \o <<":", " ">> \o Quoted(remark) \o <<",", NL>>
        \o Quoted(<<"technical_skills">>) \o <<":", " ", "4", "}">>

Responses ==
    Texts
    \cup {TwoLines(remark) : remark \in Remarks}
    \cup UNION {{dumps(Wrapped("cv", CVObject(v, <<>>))),
                 dumps(Nested(CVObject(v, <<>>))),
                 Fenced(dumps(Wrapped("project", CVObject(v, <<>>))))} : v \in ScoreValues}

FormatInit ==
    /\ response_text \in Responses
    /\ formatted = <<>>
    /\ prompt_args = <<>>

FormatNext == (\E doc \in Docs : Format(doc)) \/ GenerateSummary

\* nothing else of the program runs
FormatAlone ==
    StoreInit /\ TaskIdle /\ RepairIdle /\ FormatInit /\ ScoringIdle /\ ContextIdle /\ PdfIdle /\ RaceIdle

SpecFormat == FormatAlone /\ [][FormatNext]_vars

----------------------------------------------------------------------------
\* CVScoring.weighted_score and CVScoring.match_rate (src/models/evaluate.py)

\* the weights of weighted_score, in hundredths
weights ==
    [k \in DOMAIN CVScoring |->
        CASE k = Name("technical_skills") -> 40
          [] k = Name("experience_level") -> 25
          [] k = Name("achievements") -> 20
          [] k = Name("cultural_fit") -> 15]

RECURSIVE Weighted(_, _, _)
Weighted(self, w, keys) ==
    IF keys = {} THEN 0
    ELSE LET k == CHOOSE x \in keys : TRUE
         IN self[k] * w[k] + Weighted(self, w, keys \ {k})

\* weighted_score with every weight the same
weighted_score_Unweighted(self) ==
    Weighted(self, [k \in DOMAIN self |-> 25], DOMAIN self)

\* round(score, 2), in hundredths: the sum of score * weight is a whole
\* number of hundredths
weighted_score(self) == Weighted(self, weights, DOMAIN self)

\* round(self.weighted_score * 0.2, 3), in thousandths: a fifth of the
\* hundredths is a whole number of thousandths
match_rate(self) == 2 * weighted_score(self)

\* the two properties of the instance are read
ReadRates ==
    /\ DOMAIN scoring # {}
    /\ DOMAIN rates = {}
    /\ rates' = [weighted_score |-> weighted_score(scoring),
                 match_rate |-> match_rate(scoring)]
    /\ UNCHANGED <<store_vars, now, task_vars, pdf_vars, race_vars, repair_vars, format_vars, context_vars,
                   scoring>>

\* any instance the model validates: each score within ge..le
ScoringInit ==
    /\ scoring \in [DOMAIN CVScoring -> ge..le]
    /\ rates = <<>>

ScoringAlone ==
    StoreInit /\ TaskIdle /\ RepairIdle /\ FormatIdle /\ ScoringInit /\ ContextIdle
    /\ PdfIdle /\ RaceIdle

SpecScoring == ScoringAlone /\ [][ReadRates]_vars

----------------------------------------------------------------------------
\* QdrantService.get_evaluation_context (src/services/qdrant_service.py)

qdrant_cv_collection == "cv_evaluation_context"

qdrant_project_collection == "project_evaluation_context"

Collections == {qdrant_cv_collection, qdrant_project_collection, "other"}

\* settings.rag_top_k
rag_top_k == 5

\* top_k=3 of the searches by source
top_k == 3

\* the source tags searched one by one
SourcesOf(collection_name) ==
    IF collection_name = qdrant_cv_collection
    THEN <<"job_description", "cv_rubric">>
    ELSE <<"case_study_brief", "project_rubric">>

\* what client.search may answer: up to limit hits, each with or without
\* content in its payload
Hits(limit) == UNION {[1..n -> {"", "chunk"}] : n \in 0..limit}

\* search_with_filter: the hits as RAGContext
Contexts(hits, source_filter) ==
    [i \in 1..Len(hits) |->
        [content |-> hits[i],
         source |-> IF source_filter = "" THEN "unknown" ELSE source_filter]]

\* get_evaluation_context is called
Call(collection_name, separate_sources) ==
    [collection_name |-> collection_name,
     separate_sources |-> separate_sources,
     sources |-> IF separate_sources THEN SourcesOf(collection_name) ELSE <<"">>,
     result |-> <<>>,
     pc |-> "search"]

\* one search_with_filter of get_evaluation_context: what client.search
\* raises leaves search_with_filter and get_evaluation_context
SearchSource ==
    /\ DOMAIN retrieval # {}
    /\ retrieval.pc = "search"
    /\ LET source == Head(retrieval.sources)
           key == IF retrieval.separate_sources THEN source ELSE "all"
           limit == IF retrieval.separate_sources THEN top_k ELSE rag_top_k
       IN \/ retrieval' = [retrieval EXCEPT !.pc = "raised"]
          \/ \E hits \in Hits(limit) :
                retrieval' =
                    [retrieval EXCEPT
                        !.result = [k \in DOMAIN retrieval.result \cup {key} |->
                                       IF k = key THEN Contexts(hits, source)
                                       ELSE retrieval.result[k]],
                        !.sources = Tail(retrieval.sources),
                        !.pc = IF Len(retrieval.sources) = 1 THEN "returned" ELSE "search"]
    /\ UNCHANGED <<store_vars, now, task_vars, pdf_vars, race_vars, repair_vars, format_vars, scoring_vars,
                   reference_documents, lookup>>

----------------------------------------------------------------------------
\* find_default_and_mandatory_by_role_and_categories
\* (src/repository/document_reference_repository.py) and the rubric blocks
\* of _evaluate_cv and _evaluate_project

\* how many rows the table holds
MaxDocuments == 2

ContextStatus == {"RELATED", "OPTIONAL", "DEFAULT", "MANDATORY"}

Categories == {"CV", "Project"}

RoleIds == {1, 2}

ReferenceDocument ==
    [role_id : RoleIds, is_active : BOOLEAN, context_status : ContextStatus,
     category : Categories]

\* the query with the context_status filter
Filtered(rows, role_id, categories) ==
    {id \in DOMAIN rows : /\ rows[id].role_id = role_id
                          /\ rows[id].is_active
                          /\ rows[id].context_status \in {"DEFAULT", "MANDATORY"}
                          /\ rows[id].category \in categories}

\* the query of the except branch, without the context_status filter
Unfiltered(rows, role_id, categories) ==
    {id \in DOMAIN rows : /\ rows[id].role_id = role_id
                          /\ rows[id].is_active
                          /\ rows[id].category \in categories}

\* the call for the rubric of doc: the first query returns its rows, or
\* raises sa_exc.DataError and the second query is run; every document
\* returned becomes a rubric block
FindDefaultAndMandatory(doc) ==
    /\ DOMAIN reference_documents # {}
    /\ DOMAIN lookup = {}
    /\ \E role_id \in RoleIds, outcome \in {"rows", "DataError"} :
          LET categories == IF doc = "cv" THEN {"CV"} ELSE {"Project"}
              result == IF outcome = "rows"
                        THEN Filtered(reference_documents, role_id, categories)
                        ELSE Unfiltered(reference_documents, role_id, categories)
          IN lookup' = [role_id |-> role_id, categories |-> categories,
                        outcome |-> outcome, rubric_blocks |-> result]
    /\ UNCHANGED <<store_vars, now, task_vars, pdf_vars, race_vars, repair_vars, format_vars, scoring_vars,
                   retrieval, reference_documents>>

\* get_evaluation_context called once, with any collection
RetrievalInit ==
    /\ retrieval \in {Call(c, s) : c \in Collections, s \in BOOLEAN}
    /\ reference_documents = <<>>
    /\ lookup = <<>>

RetrievalAlone ==
    StoreInit /\ TaskIdle /\ RepairIdle /\ FormatIdle /\ ScoringIdle /\ RetrievalInit
    /\ PdfIdle /\ RaceIdle

SpecRetrieval == RetrievalAlone /\ [][SearchSource]_vars

\* the lookup called once, over any table
LookupInit ==
    /\ retrieval = <<>>
    /\ reference_documents \in [1..MaxDocuments -> ReferenceDocument]
    /\ lookup = <<>>

LookupAlone ==
    StoreInit /\ TaskIdle /\ RepairIdle /\ FormatIdle /\ ScoringIdle /\ LookupInit
    /\ PdfIdle /\ RaceIdle

LookupNext == \E doc \in Docs : FindDefaultAndMandatory(doc)

SpecLookup == LookupAlone /\ [][LookupNext]_vars

----------------------------------------------------------------------------
\* PDFParser.extract_text alone (src/services/pdf_service.py).  A text is
\* held by its length: extract_text looks at nothing else of it.

\* "len(text) > 100"
MinChars == 100

MaxChars == 102

Lengths == {0, 1, MinChars - 1, MinChars, MinChars + 1, MaxChars}

\* what an extractor does when called: it raises, or it returns a text
Extractions == {[raises |-> TRUE, len |-> 0]} \cup {[raises |-> FALSE, len |-> n] : n \in Lengths}

\* the test accepting every non-empty text
LongEnough_Any(text) == text.len > 0

\* "if text and len(text) > 100"
LongEnough(text) == text.len > 0 /\ text.len > MinChars

NoText == [by |-> "", len |-> 0]

FileNotFoundError == "File not found"

NotExtractable == "Could not extract text from PDF"

\* "if not file_path.exists(): raise FileNotFoundError"
ExtractCheck ==
    /\ DOMAIN extraction # {}
    /\ extraction.pc = "called"
    /\ extraction' =
          IF extraction.exists
          THEN [extraction EXCEPT !.pc = "pdfplumber"]
          ELSE [extraction EXCEPT !.pc = "raised", !.raised = FileNotFoundError]
    /\ UNCHANGED <<store_vars, now, task_vars, repair_vars, format_vars, scoring_vars,
                   context_vars, race_vars>>

\* one try block of extract_text: the extractor is called; a long enough
\* text is returned, an exception is logged, and else the next block runs
ExtractWith(extractor, result, next) ==
    /\ DOMAIN extraction # {}
    /\ extraction.pc = extractor
    /\ extraction' =
          IF ~result.raises /\ LongEnough(result)
          THEN [extraction EXCEPT !.pc = "returned",
                                  !.tried = Append(@, extractor),
                                  !.text = [by |-> extractor, len |-> result.len]]
          ELSE [extraction EXCEPT !.pc = next,
                                  !.tried = Append(@, extractor)]
    /\ UNCHANGED <<store_vars, now, task_vars, repair_vars, format_vars, scoring_vars,
                   context_vars, race_vars>>

\* text = PDFParser._extract_with_pdfplumber(file_path)
ExtractWithPdfplumber == ExtractWith("pdfplumber", extraction.pdfplumber, "pdf2")

\* text = PDFParser._extract_with_pdf2(file_path)
ExtractWithPdf2 == ExtractWith("pdf2", extraction.pdf2, "failed")

\* raise ValueError(f"Could not extract text from PDF: {file_path}")
ExtractFails ==
    /\ DOMAIN extraction # {}
    /\ extraction.pc = "failed"
    /\ extraction' = [extraction EXCEPT !.pc = "raised", !.raised = NotExtractable]
    /\ UNCHANGED <<store_vars, now, task_vars, repair_vars, format_vars, scoring_vars,
                   context_vars, race_vars>>

\* extract_text called on any file, with extractors behaving in any way
ExtractInit ==
    \E exists \in BOOLEAN, a \in Extractions, b \in Extractions :
        extraction = [pc |-> "called", exists |-> exists, pdfplumber |-> a, pdf2 |-> b,
                      tried |-> <<>>, text |-> NoText, raised |-> ""]

ExtractAlone ==
    StoreInit /\ TaskIdle /\ RepairIdle /\ FormatIdle /\ ScoringIdle /\ ContextIdle
    /\ ExtractInit /\ RaceIdle

ExtractNext == ExtractCheck \/ ExtractWithPdfplumber \/ ExtractWithPdf2 \/ ExtractFails

SpecExtract == ExtractAlone /\ [][ExtractNext]_vars

----------------------------------------------------------------------------
\* Two calls of update_job_status for one job, interleaved at their awaits
\* (src/databases/redis.py): "await client.get" and "await client.setex".

Callers == {1, 2}

\* the record the two calls find: a job that is being processed
Stored == NewJobData(TheJob, <<>>, <<>>, PROCESSING, 0)

UpdateArgs == [status : JobStatus, result : ResultArgs, error : ErrorArgs]

\* a setex that reads the record again instead of writing what the call holds
SetexValue_Fresh(db, u, t) ==
    UpdatedJobData(db[TheJob], u.args.status, u.args.result, u.args.error, t)

\* json.dumps(job_data): the call writes the record it read, with its changes
SetexValue(db, u, t) ==
    UpdatedJobData(u.job_data, u.args.status, u.args.result, u.args.error, t)

\* job_data_str = await client.get(...); job_data = json.loads(job_data_str)
UpdateGet(c) ==
    /\ DOMAIN updaters # {}
    /\ updaters[c].pc = "get"
    /\ updaters' =
          IF UpdateRaises(redis, TheJob)
          THEN [updaters EXCEPT ![c].pc = "raised"]
          ELSE [updaters EXCEPT ![c].pc = "setex", ![c].job_data = redis[TheJob]]
    /\ UNCHANGED <<store_vars, now, task_vars, repair_vars, format_vars, scoring_vars,
                   context_vars, pdf_vars>>

\* the fields are changed and "await client.setex(...)" stores the record
UpdateSetex(c) ==
    /\ DOMAIN updaters # {}
    /\ updaters[c].pc = "setex"
    /\ redis' = Setex(redis, TheJob, SetexValue(redis, updaters[c], now))
    /\ last' = [op |-> "update", id |-> TheJob, status |-> updaters[c].args.status,
                result |-> updaters[c].args.result, error |-> updaters[c].args.error,
                raised |-> ""]
    /\ retrying_updates' = CountRetrying(retrying_updates, redis, TheJob,
                                         updaters[c].args.status)
    /\ calls' = calls + 1
    /\ trail' = Trailed(trail, redis', TheJob)
    /\ updaters' = [updaters EXCEPT ![c].pc = "done", ![c].wrote = calls + 1]
    /\ UNCHANGED <<now, task_vars, repair_vars, format_vars, scoring_vars,
                   context_vars, pdf_vars>>

\* the record exists, and two calls with any arguments are about to read it
RaceInit ==
    /\ redis = Setex(EmptyDict, TheJob, Stored)
    /\ last = NoCall
    /\ retrying_updates = [j \in JobIds |-> 0]
    /\ calls = 0
    /\ trail = [j \in JobIds |-> IF j = TheJob THEN <<PROCESSING>> ELSE <<>>]
    /\ now = 0
    /\ \E a \in UpdateArgs, b \in UpdateArgs :
          updaters = [c \in Callers |->
                        [pc |-> "get", args |-> IF c = 1 THEN a ELSE b,
                         job_data |-> EmptyDict, wrote |-> 0]]

RaceAlone ==
    RaceInit /\ TaskIdle /\ RepairIdle /\ FormatIdle /\ ScoringIdle /\ ContextIdle
    /\ PdfIdle

RaceNext == \E c \in Callers : UpdateGet(c) \/ UpdateSetex(c)

SpecRace == RaceAlone /\ [][RaceNext]_vars

----------------------------------------------------------------------------
\* Properties of validate_and_repair_json

\* the try block of stage n, on the text and the model of the call
Tried(n) ==
    CASE n = 1 -> Direct(json_str, expected_model)
      [] n = 2 -> Cleaned(json_str, expected_model)
      [] n = 3 -> Regex(json_str, expected_model)
      [] n = 4 -> Filled(json_str, expected_model)

HasRun(n) == \E i \in 1..Len(attempted) : attempted[i] = n

Returned == repair_pc = "returned"

\* C11: the stages run in the order direct parse, cleaned parse, regex
\* extraction, default-filled extraction; a stage runs only if every earlier
\* stage failed; the record returned is the one of the first stage that
\* validates; and whatever fails in stages 1 to 3, the next stage runs:
\* nothing leaves the cascade before stage 4
C11_StagesInOrder ==
    /\ attempted = [n \in 1..Len(attempted) |-> n]
    /\ \A n \in Stages : HasRun(n) => \A earlier \in 1..(n - 1) : Tried(earlier).exc # ""
    /\ Returned =>
          /\ Tried(Len(attempted)).exc = ""
          /\ validated = Tried(Len(attempted)).validated
    /\ \A n \in 1..3 :
          HasRun(n) /\ Tried(n).exc # "" => HasRun(n + 1) \/ repair_pc = PcOf(n + 1)

\* the integers 1..5
Scores == {AnInt(n) : n \in ge..le}

\* what json.loads makes of the text of the call
Written == loads(json_str).v

\* stage 1 has parsed the text to an object, and no later stage has run
DirectlyParsed == attempted = <<1>> /\ loads(json_str).ok /\ Written.t = "dict"

\* a string that is a number, with spaces around it or not
NumericString(x) ==
    /\ x.t = "str"
    /\ strip(x.str) # <<>>
    /\ NumberEnd(strip(x.str), 1) = Len(strip(x.str)) + 1

\* a numeric string, a fractional number or an out-of-range integer
ToRepair(x) ==
    \/ NumericString(x)
    \/ x.t = "float"
    \/ x.t = "int" /\ x.int \notin ge..le

\* C12: a known score field written as a numeric string, a fractional
\* number or an out-of-range integer is an integer in 1..5 after
\* normalize_json_fields and validate_score_range; and in every record
\* validate_and_repair_json returns, every score field is an integer in 1..5
C12_ScoresInRange ==
    /\ DirectlyParsed =>
          \A k \in DOMAIN Written.dict :
              IsScoreField(k) /\ ToRepair(Written.dict[k]) => repair_data.dict[k] \in Scores
    /\ Returned =>
          \A k \in DOMAIN validated.dict : IsScoreField(k) => validated.dict[k] \in Scores

C12_Witness ==
    /\ DirectlyParsed
    /\ Returned
    /\ Written.dict[Name("technical_skills")] = AStr(<<"4", ".", "7">>)
    /\ repair_data.dict[Name("technical_skills")] = AnInt(5)
    /\ validated.dict[Name("technical_skills")] = AnInt(5)

\* a number within [1, 5]; what is no number is no numeric score
InRange(value) == value.t \in {"int", "float"} => Tenths(value) \in (10 * ge)..(10 * le)

\* C13: in every result of the pipeline, each numeric score field of the CV
\* result and of the project result, the scores nested under a "scores"
\* key included, lies in [1, 5]
C13_OutcomeScoresInRange ==
    \A doc \in DOMAIN formatted :
        formatted[doc].t = "dict" =>
            \A k \in DOMAIN formatted[doc].dict :
                /\ IsScoreField(k) => InRange(formatted[doc].dict[k])
                /\ k = Name("scores") /\ formatted[doc].dict[k].t = "dict" =>
                      \A sk \in DOMAIN formatted[doc].dict[k].dict :
                          IsScoreField(sk) => InRange(formatted[doc].dict[k].dict[sk])

reasoning == Name("reasoning")

\* C14: after normalize_json_fields the reasoning of a record is always a
\* mapping: a string, empty or blank included, is wrapped as {summary:
\* text}; a list becomes a summary and indexed details; null and absent
\* become the empty mapping; it never stays a string, a list, a number or
\* missing
C14_ReasoningIsMapping ==
    DirectlyParsed =>
        /\ reasoning \in DOMAIN repair_data.dict
        /\ repair_data.dict[reasoning].t = "dict"
        /\ reasoning \notin DOMAIN Written.dict => repair_data.dict[reasoning] = ADict(<<>>)
        /\ reasoning \in DOMAIN Written.dict =>
              LET rv == Written.dict[reasoning]
              IN CASE rv.t = "str" ->
                        repair_data.dict[reasoning] =
                            ADict([k \in {Name("summary")} |-> AStr(strip(rv.str))])
                   [] rv.t = "list" ->
                        DOMAIN repair_data.dict[reasoning].dict =
                            {Name("summary"), Name("details")}
                   [] rv.t = "None" -> repair_data.dict[reasoning] = ADict(<<>>)
                   [] OTHER -> TRUE

\* C15: for any non-empty text validate_and_repair_json returns a record
\* with every field of the expected model: stage 4 never fails and no
\* exception leaves the cascade
C15_AlwaysReturns ==
    json_str # <<>> =>
        /\ repair_pc # "raised"
        /\ HasRun(4) => Tried(4).exc = ""
        /\ Returned =>
              /\ DOMAIN validated.dict = DOMAIN model_fields(expected_model)
              /\ \A k \in DOMAIN validated.dict : validated.dict[k] \in Scores

\* the text holds nothing of JSON: no brace, bracket, colon, quote, digit
\* or literal
NoJson(text) ==
    \A i \in 1..Len(text) :
        text[i] \notin {"{", "}", "[", "]", ":", DQ, "null", "true", "false"} \cup Digits

\* C16: when the text holds no JSON at all, stages 1 to 3 fail and stage 4
\* returns a record in which every score field the model declares is 3
C16_DefaultsForProse ==
    NoJson(json_str) /\ repair_pc \in {"returned", "raised"} =>
        /\ attempted = <<1, 2, 3, 4>>
        /\ Returned
        /\ \A k \in DOMAIN model_fields(expected_model) :
              IsScoreField(k) => validated.dict[k] = AnInt(3)

\* the text is in a markdown code fence, with the json tag or without
IsFenced(text) ==
    Len(text) >= 6 /\ StartsAt(text, Fence, 1) /\ StartsAt(text, Fence, Len(text) - 2)

\* the text between the opening fence and the closing fence
Unfenced(text) ==
    strip(SubSeq(text, IF StartsAt(text, Fence \o <<"json">>, 1) THEN 5 ELSE 4,
                 Len(text) - 3))

\* the text is a JSON object that holds every field of the model as an
\* integer within its bounds
SchemaValid(text, model) ==
    /\ loads(text).ok
    /\ loads(text).v.t = "dict"
    /\ \A k \in DOMAIN model_fields(model) :
          k \in DOMAIN loads(text).v.dict /\ loads(text).v.dict[k] \in Scores

FencedObject == IsFenced(json_str) /\ SchemaValid(Unfenced(json_str), expected_model)

CutObject(text) ==
    /\ ~loads(text).ok
    /\ loads(text \o <<"}">>).ok
    /\ loads(text \o <<"}">>).v.t = "dict"

\* the members the object was cut from holds at top level
TopLevel == loads(json_str \o <<"}">>).v.dict

Recovered == extract_json_with_regex(json_str, expected_model).dict

\* C18: from a text that lacks its closing brace, extract_json_with_regex
\* returns for every field of the model in the text the value written for
\* it at top level (an integer, a float such as 4.5, a number of several
\* digits; not an entry of the same name nested in reasoning), and omits
\* the fields it cannot recover
C18_RegexRecovers ==
    HasRun(3) /\ CutObject(json_str) =>
        /\ DOMAIN Recovered \subseteq DOMAIN model_fields(expected_model) \cap DOMAIN TopLevel
        /\ \A k \in DOMAIN Recovered : Recovered[k] = TopLevel[k]
        /\ \A k \in DOMAIN model_fields(expected_model) \cap DOMAIN TopLevel :
              TopLevel[k].t \in {"int", "float"} /\ Tenths(TopLevel[k]) >= 0
                  => k \in DOMAIN Recovered

\* C19: clean, parse, normalize, clamp is idempotent on its own output: the
\* record stage 2 made, serialised and put through the same steps again,
\* or through normalize_json_fields and validate_score_range again, is the
\* same record
C19_RepairIdempotent ==
    attempted = <<1, 2>> /\ repair_data.t = "dict" =>
        /\ Cleaned(dumps(repair_data), expected_model).data = repair_data
        /\ validate_score_range(normalize_json_fields(repair_data)) = repair_data

\* generate_with_retry is being called
Generating == pc = "synthesis" \/ \E doc \in Docs : pc = At("generate", doc)

\* C20: one call of generate_with_retry invokes the model transport at most
\* 3 times: a successful attempt returns without another attempt, a failed
\* attempt before the third is followed by the next attempt and raises
\* nothing, and the failure of the third attempt is raised to the caller
C20_AtMostThreeAttempts ==
    /\ [](attempt \in 0..stop_after_attempt)
    /\ [][Generating /\ pc' = pc /\ attempt' # attempt
            => (attempt' = attempt + 1 /\ exc' = exc)]_vars
    /\ [][pc = "synthesis" /\ pc' = "complete" => attempt' = attempt]_vars
    /\ [][pc = "synthesis" /\ pc' = "raised"
            => (/\ attempt = stop_after_attempt
                /\ exc' \in {"Empty response from Gemini", SoftTimeLimitExceeded})]_vars

\* the third attempt of the synthesis call has failed
C20_Witness ==
    /\ pc = "raised"
    /\ attempt = stop_after_attempt
    /\ exc = "Empty response from Gemini"

----------------------------------------------------------------------------
\* Failures inside evaluate

GenerateSteps == {At("generate", doc) : doc \in Docs}

\* the model call of an evaluation has failed on its last attempt
GenerationFailed ==
    /\ awaited.at \in GenerateSteps
    /\ awaited.outcome = "error"
    /\ awaited.attempt = stop_after_attempt

\* C21: when the model call of the CV evaluation or of the project
\* evaluation still fails after its in-call retries, evaluate raises: the
\* failure travels to the task's handlers, which write RETRYING or FAILED
C21_GenerationFailureSurfaces ==
    GenerationFailed => (exc # "" /\ pc \in {"raised", "retry", "done", "idle"})

\* the vector search for an optional document has failed
SearchFailed ==
    /\ awaited.at \in {At("search", doc) : doc \in Docs}
    /\ awaited.outcome = "error"

\* C22: a failed vector search for one optional document is isolated: the
\* loop goes on with the other documents, evaluate raises nothing because
\* of it, and the job is neither retried nor failed for it
C22_SearchIsolated ==
    SearchFailed => (exc = "" /\ pc = awaited.at)

\* C24: the synthesis call is issued only after the CV evaluation and the
\* project evaluation have both returned, with a result or with None
C24_SynthesisAfterBoth ==
    (pc = "synthesis" \/ awaited.at = "synthesis") => resolved = Docs

\* the synthesis is about to be called after an evaluation that gave None
C24_Witness ==
    /\ pc = "synthesis"
    /\ resolved = Docs
    /\ cv_formatted = "none"
    /\ project_formatted = "dict"

\* _strip_none of a formatted_result: the keys that hold None are left out
strip_none(obj) == [k \in {x \in DOMAIN obj : obj[x] # "none"} |-> obj[k]]

\* get_job_status: None without a record, else the record without its
\* None values
get_job_status(db, job_id) ==
    IF job_id \notin DOMAIN db THEN EmptyDict
    ELSE [k \in DOMAIN db[job_id] |->
            IF k = "formatted_result" THEN strip_none(db[job_id][k]) ELSE db[job_id][k]]

Failed == Exists /\ Job.status = FAILED

\* C25 as stated: the error of a FAILED job is the error string of the last
\* failure, verbatim, and a status query returns it unchanged
C25_ErrorVerbatim ==
    Failed => (Job.error = exc /\ get_job_status(redis, TheJob).error = Job.error)

\* C25: the error of a FAILED job is "Failed after 3 retries: " followed by
\* the error string of the last failure when the retries are exhausted, and
\* "Evaluation timed out after 4 minutes" after a timeout; a status query
\* returns the stored string unchanged
C25_ErrorOfLastFailure ==
    Failed =>
        /\ Job.error = IF exc = SoftTimeLimitExceeded
                       THEN "Evaluation timed out after 4 minutes"
                       ELSE "Failed after 3 retries: " \o exc
        /\ get_job_status(redis, TheJob).error = Job.error

\* the fourth execution has failed on the embedding
C25_Witness ==
    /\ Failed
    /\ exc = "Embedding generation error"
    /\ get_job_status(redis, TheJob).error =
          "Failed after 3 retries: Embedding generation error"

\* the error evaluate raises when a step before the evaluations fails
EarlyError(at) ==
    CASE at = "role" -> "Role not found: " \o JobTitle
      [] \E doc \in Docs : at = At("plumber", doc) ->
            "File not found: " \o (CHOOSE doc \in Docs : at = At("plumber", doc))
      [] \E doc \in Docs : at = At("pypdf2", doc) ->
            "Could not extract text from PDF: " \o
                (CHOOSE doc \in Docs : at = At("pypdf2", doc))

\* the role was not found, or extract_text has failed
EarlyFailure ==
    \/ awaited.at = "role" /\ awaited.outcome = "none"
    \/ \E doc \in Docs : awaited.at = At("plumber", doc) /\ awaited.outcome = "missing"
    \/ \E doc \in Docs : awaited.at = At("pypdf2", doc) /\ awaited.outcome # "text"

\* C27: when the role is not found or the text of the CV or of the report
\* cannot be extracted, evaluate raises that error; no embedding, search or
\* model call was issued, and evaluate takes no step again after the raise
C27_ShortCircuit ==
    /\ [](EarlyFailure =>
            /\ exc = EarlyError(awaited.at)
            /\ pc \in {"raised", "retry", "done", "idle"}
            /\ attempt = 0
            /\ to_search = 0
            /\ resolved = {})
    /\ [][pc = "raised" => pc' \in {"raised", "retry", "done"}]_vars

\* the report cannot be read by either extractor
C27_Witness ==
    /\ EarlyFailure
    /\ awaited.at = At("pypdf2", "project")
    /\ pc = "raised"
    /\ exc = "Could not extract text from PDF: project"

FormattedOf(doc) == IF doc = "cv" THEN cv_formatted ELSE project_formatted

\* the answer of the model for doc could not be parsed, cleaned or not
Unparseable(doc) == awaited.at = At("generate", doc) /\ awaited.outcome = "prose"

\* None as the pipeline holds it
AsValue(formatted_) == IF formatted_ = "none" THEN None ELSE ADict(<<>>)

\* C28: when the answer of the model for one document cannot be parsed,
\* evaluate raises nothing and goes on: the result of that document is
\* None, the synthesis gets 0 for its score and "" for its feedback, and
\* the job is written COMPLETED with that None in its result
C28_UnparseableIsNone ==
    /\ [](\A doc \in Docs :
            Unparseable(doc) =>
                /\ exc = ""
                /\ pc = AfterEvaluate(doc)
                /\ FormattedOf(doc) = "none"
                /\ cv_match_rate(AsValue(FormattedOf(doc))) = 0
                /\ project_score(AsValue(FormattedOf(doc))) = 0
                /\ feedback(AsValue(FormattedOf(doc)), doc \o "_feedback") = AStr(<<>>))
    /\ [][(pc = "complete" /\ pc' = "done")
            => /\ redis'[TheJob].status = COMPLETED
               /\ redis'[TheJob].formatted_result =
                     [cv |-> cv_formatted, project |-> project_formatted]]_vars

\* the report's answer was prose and the synthesis is about to be called
C28_Witness ==
    /\ Unparseable("project")
    /\ pc = "synthesis"
    /\ cv_formatted = "dict"
    /\ project_formatted = "none"

\* the numeric values a result holds at top level and under its "scores" key
Scored(result) ==
    IF Name("scores") \in DOMAIN result /\ result[Name("scores")].t = "dict"
    THEN result[Name("scores")].dict
    ELSE <<>>

HowMany(result) ==
    Cardinality(NumericKeys(result)) + Cardinality(NumericKeys(Scored(result)))

\* their average, in thousandths
Average(result) ==
    RoundDiv(100 * (SumTenths(result, NumericKeys(result))
                    + SumTenths(Scored(result), NumericKeys(Scored(result)))),
             HowMany(result))

\* the score signal of a document on the 1..5 scale, in thousandths
Signal(doc) ==
    IF doc = "cv" THEN 5 * prompt_args.cv_match_rate ELSE prompt_args.project_score

Near(a, b) == a - b \in -5..5

\* C29: in _generate_summary the score signal of each document, CV and
\* project alike, is the average of all the numeric values of its result,
\* flat at top level or nested under "scores" (the CV's taken back from
\* 0..1 to the 1..5 scale, and up to the rounding), and is 0 when the
\* result is None or holds no numeric value
C29_SignalIsAverage ==
    DOMAIN prompt_args # {} =>
        \A doc \in Docs :
            IF formatted[doc].t = "dict" /\ HowMany(formatted[doc].dict) > 0
            THEN Near(Signal(doc), Average(formatted[doc].dict))
            ELSE Signal(doc) = 0

\* technical_skills=4, experience_level=4, achievements=4, cultural_fit=2
Example ==
    [k \in DOMAIN CVScoring |-> IF k = Name("cultural_fit") THEN 2 ELSE 4]

ExampleRead == scoring = Example /\ DOMAIN rates # {}

\* C26 as stated: for the scores 4, 4, 4, 2 under the weights 40%, 25%,
\* 20%, 15% the weighted score is 3.6 and the match rate 0.72
C26_AsStated ==
    ExampleRead => (rates.weighted_score = 360 /\ rates.match_rate = 720)

\* C26: for the scores 4, 4, 4, 2 under the weights 40%, 25%, 20%, 15% the
\* weighted score is 3.7 and the match rate, the weighted score times 0.2,
\* is 0.74
C26_WeightedScore ==
    ExampleRead => (rates.weighted_score = 370 /\ rates.match_rate = 740)

C26_Witness == ExampleRead /\ rates.weighted_score = 370

\* get_evaluation_context was called with separate sources and is over
SeparateDone ==
    /\ DOMAIN retrieval # {}
    /\ retrieval.separate_sources
    /\ retrieval.pc \in {"returned", "raised"}

\* C23: get_evaluation_context with separate sources returns a mapping
\* with a key for each of the two source tags of the collection, each
\* mapped to a sequence that may be empty, also when the search for one of
\* the tags raises
C23_BothKeys ==
    SeparateDone =>
        /\ retrieval.pc = "returned"
        /\ DOMAIN retrieval.result =
              {SourcesOf(retrieval.collection_name)[i] : i \in 1..2}

\* the documents of the table the rubric block is to hold
DefaultAndMandatory ==
    {id \in DOMAIN reference_documents :
        /\ reference_documents[id].role_id = lookup.role_id
        /\ reference_documents[id].is_active
        /\ reference_documents[id].category \in lookup.categories
        /\ reference_documents[id].context_status \in {"DEFAULT", "MANDATORY"}}

\* C30: the rubric block of a prompt holds exactly the active reference
\* documents of the role and category whose context status is DEFAULT or
\* MANDATORY; an OPTIONAL or RELATED document is never in it, on any path
\* of the lookup
C30_RubricIsDefaultAndMandatory ==
    DOMAIN lookup # {} =>
        /\ lookup.rubric_blocks = DefaultAndMandatory
        /\ \A id \in lookup.rubric_blocks :
              reference_documents[id].context_status \notin {"OPTIONAL", "RELATED"}

----------------------------------------------------------------------------
\* Properties of the task runner and of the job store, continued

\* the countdown after the n-th failed execution, as the specification states it
Countdowns == <<1, 2, 4>>

\* the messages a retry has put in the queue
Retried(q) == {i \in 1..Len(q) : q[i].retries > 0}

\* C31: the retry after the n-th failed execution (n = 1, 2, 3) is
\* scheduled with a countdown of 2^(n-1) seconds (1, 2, 4), and the RETRYING
\* status is in the job store before the retry is scheduled.
C31_Countdown ==
    /\ [](\A i \in Retried(queue) :
            /\ queue[i].retries \in 1..3
            /\ queue[i].countdown = Countdowns[queue[i].retries])
    /\ [][(pc = "retry" /\ queue' # queue)
            => /\ Exists
               /\ Job.status = RETRYING
               /\ last.op = "update" /\ last.status = RETRYING /\ last.raised = ""
               /\ queue' = Append(queue, queue'[Len(queue')])
               /\ queue'[Len(queue')].retries = request.retries + 1
               /\ queue'[Len(queue')].countdown = Countdowns[request.retries + 1]]_vars

\* the third failed execution has scheduled the last retry, 4 seconds ahead
C31_Witness ==
    /\ queue # <<>>
    /\ queue[1].retries = 3
    /\ queue[1].countdown = 4
    /\ Exists
    /\ Job.status = RETRYING
    /\ Job.retry_count = 3

\* C32: the task is enqueued only once the record exists with status QUEUED
\* and retry_count 0, so the first status of every job is QUEUED; when the
\* CV or the report is missing no record is created and no task enqueued.
C32_QueuedFirst ==
    /\ [](trail[TheJob] # <<>> => trail[TheJob][1] = QUEUED)
    /\ []((queue # <<>> \/ pc # "idle") => Exists)
    /\ [](last.op = "http404" => (~Exists /\ queue = <<>> /\ pc = "idle"))
    /\ [][(pc = "idle" /\ Len(queue') > Len(queue))
            => /\ ~Exists
               /\ TheJob \in DOMAIN redis'
               /\ redis'[TheJob].status = QUEUED
               /\ redis'[TheJob].retry_count = 0
               /\ Len(queue') = 1
               /\ queue'[1].retries = 0]_vars

\* the task was enqueued for a job that is QUEUED and was never retried
C32_Witness ==
    /\ queue # <<>>
    /\ queue[1].retries = 0
    /\ Exists
    /\ Job.status = QUEUED
    /\ Job.retry_count = 0
    /\ trail[TheJob] = <<QUEUED>>

\* an extractor was of no use: it raised, or gave at most 100 characters
Useless(result) == result.raises \/ result.len <= 100

ExtractEnded == DOMAIN extraction # {} /\ extraction.pc \in {"returned", "raised"}

\* C33: extract_text tries the layout-aware extractor first and the simpler
\* one only if the first raised or gave at most 100 characters; a text it
\* returns is longer than 100 characters; it raises the not-extractable error
\* exactly when both raise or give at most 100 characters; a missing file
\* raises before either extractor is tried.
C33_ExtractText ==
    ExtractEnded =>
        LET e == extraction IN
        /\ e.tried \in {<<>>, <<"pdfplumber">>, <<"pdfplumber", "pdf2">>}
        /\ e.tried = <<>> <=> ~e.exists
        /\ ~e.exists => (e.pc = "raised" /\ e.raised = FileNotFoundError)
        /\ e.exists => (Len(e.tried) = 2 <=> Useless(e.pdfplumber))
        /\ e.pc = "returned" =>
              /\ e.text.len > 100
              /\ e.text.by = e.tried[Len(e.tried)]
              /\ e.text.len = e[e.text.by].len
        /\ (e.pc = "raised" /\ e.raised = NotExtractable)
              <=> (e.exists /\ Useless(e.pdfplumber) /\ Useless(e.pdf2))

\* the first extractor gave exactly 100 characters, the second one 101
C33_Witness ==
    /\ ExtractEnded
    /\ extraction.pdfplumber = [raises |-> FALSE, len |-> 100]
    /\ extraction.text = [by |-> "pdf2", len |-> 101]

BothDone == DOMAIN updaters # {} /\ \A c \in Callers : updaters[c].pc = "done"

\* the record after the update of caller c alone, and after c's then d's
Alone(c) ==
    UpdatedJobData(Stored, updaters[c].args.status, updaters[c].args.result,
                   updaters[c].args.error, now)

Serial(c, d) ==
    UpdatedJobData(Alone(c), updaters[d].args.status, updaters[d].args.result,
                   updaters[d].args.error, now)

LastWriter == CHOOSE c \in Callers : \A d \in Callers : updaters[d].wrote <= updaters[c].wrote

\* each call read the record before the other one wrote it
ReadsFirst == \A c \in Callers : updaters[c].job_data = Stored

\* C36 as stated: two interleaved updates leave the record some serial order
\* of the two would leave, so two RETRYING updates raise retry_count by 2.
C36_Serializable ==
    BothDone =>
        /\ Job \in {Serial(1, 2), Serial(2, 1)}
        /\ (\A c \in Callers : updaters[c].args.status = RETRYING)
              => Job.retry_count = Stored.retry_count + 2

\* C36: the writes are last-write-wins on the whole record: when each call
\* read the record before the other wrote it, the final record is what the
\* last writer alone makes of the record, and the other update is lost (two
\* RETRYING updates raise retry_count by 1); otherwise the record is what
\* the two updates make of it one after the other.
C36_LastWriteWins ==
    BothDone =>
        /\ ReadsFirst => Job = Alone(LastWriter)
        /\ ~ReadsFirst => Job = Serial(3 - LastWriter, LastWriter)
        /\ (ReadsFirst /\ \A c \in Callers : updaters[c].args.status = RETRYING)
              => Job.retry_count = Stored.retry_count + 1

\* two RETRYING updates, both applied, have left retry_count at 1
C36_Witness ==
    /\ BothDone
    /\ ReadsFirst
    /\ \A c \in Callers : updaters[c].args.status = RETRYING
    /\ retrying_updates[TheJob] = 2
    /\ Job.retry_count = 1

\* how many times the status became PROCESSING: the executions of the task
RECURSIVE Executions(_)
Executions(tr) ==
    IF tr = <<>> THEN 0
    ELSE (IF Head(tr) = PROCESSING THEN 1 ELSE 0) + Executions(Tail(tr))

\* C34: while the job-store writes succeed and every execution of evaluate
\* ends, an enqueued job reaches COMPLETED or FAILED after at most 4
\* executions of the task; it does not stay QUEUED, PROCESSING or RETRYING.
C34_Terminates ==
    /\ [](Executions(trail[TheJob]) <= 4)
    /\ [](request.retries <= 3)
    /\ Exists ~> (Exists /\ Job.status \in Terminal /\ queue = <<>> /\ pc = "idle")

\* the job failed in its fourth execution, on a timeout
C34_Witness ==
    /\ Exists
    /\ Job.status = FAILED
    /\ Executions(trail[TheJob]) = 4
    /\ Job.error = TimedOutError
    /\ pc = "idle"

\* the task was started without a record and its first update has raised
StartedWithout == pc = "raised" /\ awaited = NoStep /\ ~Exists

\* C35: if the record is absent when the task starts, the PROCESSING update
\* raises not-found, the failure handler's own update raises not-found too,
\* and the task ends with that error: evaluate is not invoked, no retry is
\* scheduled and no record is created.
C35_AbsentRecord ==
    /\ [][(pc = "start" /\ ~Exists /\ pc' # pc)
            => /\ pc' = "raised"
               /\ exc' = NotFound(TheJob)
               /\ last'.status = PROCESSING
               /\ last'.raised = NotFound(TheJob)
               /\ awaited' = NoStep
               /\ redis' = redis
               /\ queue' = queue]_vars
    /\ [][(StartedWithout /\ pc' # pc)
            => /\ pc' = "done"
               /\ exc' = NotFound(TheJob)
               /\ last'.status \in {RETRYING, FAILED}
               /\ last'.raised = NotFound(TheJob)
               /\ awaited' = NoStep
               /\ redis' = redis
               /\ queue' = queue]_vars
    /\ []((pc \in {"raised", "done"} /\ awaited = NoStep /\ exc = NotFound(TheJob))
            => (~Exists /\ queue = <<>>))

\* the record expired before the first execution: the task has ended with
\* the not-found error of the handler's RETRYING update
C35_Witness ==
    /\ pc = "done"
    /\ ~Exists
    /\ request.retries = 0
    /\ awaited = NoStep
    /\ exc = NotFound(TheJob)
    /\ last.status = RETRYING
    /\ last.raised = NotFound(TheJob)
    /\ queue = <<>>

\* the fields create_job_record writes and no update is to touch
Kept == {"id", "cv_id", "report_id", "cv_context", "project_context", "created_at"}

\* the fields an update with these arguments may write
MayWrite(call) ==
    {"status", "updated_at"}
        \cup (IF call.error # "" THEN {"error"} ELSE {})
        \cup (IF call.status = COMPLETED THEN {"completed_at"} ELSE {})
        \cup (IF call.status = RETRYING THEN {"retry_count"} ELSE {})
        \cup DOMAIN call.result

\* C37: an update removes no field of the record and changes only status,
\* updated_at and, depending on its arguments, error, completed_at,
\* retry_count and the keys of the merged result; id, cv_id, report_id,
\* cv_context, project_context and created_at keep their values under the
\* updates of the task runner, and the error a RETRYING update wrote is
\* still there after a later COMPLETED update.
C37_Frame ==
    /\ [][(Exists /\ TheJob \in DOMAIN redis' /\ redis'[TheJob] # Job)
            => /\ IsUpdate
               /\ DOMAIN Job \subseteq DOMAIN redis'[TheJob]
               /\ \A k \in DOMAIN redis'[TheJob] :
                     (k \notin DOMAIN Job \/ redis'[TheJob][k] # Job[k])
                        => k \in MayWrite(last')
               /\ DOMAIN last'.result \cap Kept = {}
               /\ \A k \in Kept : redis'[TheJob][k] = Job[k]]_vars
    /\ [][(Exists /\ IsUpdate /\ last'.status = COMPLETED /\ "error" \in DOMAIN Job)
            => ("error" \in DOMAIN redis'[TheJob] /\ redis'[TheJob].error = Job.error)]_vars
    /\ []((Exists /\ Job.retry_count > 0) => "error" \in DOMAIN Job)

\* a job that was retried once and then completed still shows the retry's error
C37_Witness ==
    /\ Exists
    /\ Job.status = COMPLETED
    /\ Job.retry_count = 1
    /\ "error" \in DOMAIN Job
    /\ Job.error = RetryError(0, "Qdrant search error")
    /\ Kept \subseteq DOMAIN Job

\* C38: the calls of the text-generation transport are bounded: one
\* execution of evaluate makes at most 9 of them (three generate_with_retry
\* calls, each of at most 3 attempts), one job at most 36 across its first
\* execution and all its retries.
C38_CallsBounded ==
    /\ generated.execution <= 9
    /\ generated.job <= 36
    /\ attempt <= 3
    /\ generated.job <= 9 * request.retries + generated.execution

\* four executions have each made nine calls
C38_Witness ==
    /\ generated.execution = 9
    /\ generated.job = 36
    /\ request.retries = 3

\* the model's text is a valid JSON document
ValidJson(text) == loads(text).ok

\* C39: the post-processing of JSON mode loses nothing of good output: for a
\* model text that is a valid JSON document, the text clean_json_string
\* returns in generate_with_retry parses to the same JSON value.
C39_Lossless ==
    ValidJson(response_text) =>
        /\ loads(clean_json_string(response_text)).ok
        /\ loads(clean_json_string(response_text)).v = loads(response_text).v


====
